---- MODULE Spec2Model ----
(***************************************************************************)
(* techzdl: the TechZDL download manager (src/techzdl/__init__.py) and its *)
(* AdjustableSemaphore (src/techzdl/extra.py) as a state machine over      *)
(* asyncio's cooperative tasks.  One action is one step of one task        *)
(* between two suspension points (an await that yields to the loop).       *)
(***************************************************************************)
EXTENDS Integers, Sequences, FiniteSets, TLC

\* ---------------------------------------------------------------- bounds
\* Content-Length the server reports for the resource (bytes).
ContentLength == 3
\* chunk_size of the session (bytes).
ChunkSize == 2
\* max_retries of the session.
MaxRetries == 2
\* Content-Length and max_retries when the download phase is run on its own.
LongContentLength == 5
LongRetries == 3
\* ChunkPlanner inputs: total_size in 1..MaxTotalSize, chunk_size in 1..MaxChunkSize.
MaxTotalSize == 10
MaxChunkSize == 4
\* AdjustableSemaphore on its own: callers, and the limits passed to it.
NumCallers == 3
MaxLimit == 2
\* get_file_info beside a session: the number of calls made.
MaxInfoCalls == 2
\* change_file_path_if_exist: the directory holds any of "stem.ext",
\* "stem (1).ext" .. "stem (MaxTaken).ext".
MaxTaken == 4

VARIABLES
    \* ---- TechZDL fields (src/techzdl/__init__.py, __init__)
    cfg,                 \* construction-time options
    is_running, is_downloader_used, background_download,
    download_success, download_error,
    downloader_tasks,    \* the tasks stop() cancels
    output_path, temp_file_path, filename,
    size_done, total_size, dynamic_workers,
    curl_cffi_required, session,
    \* ---- asyncio tasks
    pc,                  \* position of every task
    cancel_req,          \* tasks with a cancellation requested, not yet delivered
    exc,                 \* the exception a settled task holds
    main_i,              \* retry index of the manager's current loop
    main_err,            \* the exception the manager is handling
    tr_tasks, tr_pending,\* _task_runner: tasks, pending
    w_i, w_body, w_written, \* _load_chunk: retry index, body read, write done
    alloc_i,             \* _temp_file_creator: loop index
    prev_downloaded, prev_speed, \* _dynamic_worker_updater locals
    previous_size,       \* _show_progress: the size last reported
    sem_value, sem_waiters,      \* AdjustableSemaphore._value, Condition waiters
    \* ---- the output directory
    disk,
    \* ---- the caller
    stop_pc, stop_tasks,
    start_ret,           \* the foreground start() call: awaiting, returned, raised
    info,                \* the get_file_info() calls: position, locals, results
    \* ---- history (observers only)
    hist,
    obs,                 \* per chunk worker: requests, sleeps, acquires, releases
    \* ---- the chunk planner and the semaphore, each on its own
    plan,                \* total_size, chunk_size and the ranges computed so far
    sem,                 \* an AdjustableSemaphore and the state of its callers
    cfp,                 \* a change_file_path_if_exist call: directory, locals, result
    pair                 \* two managers that share an output directory

mgr == <<is_running, is_downloader_used, background_download, download_success,
         download_error, output_path, temp_file_path, filename, total_size,
         curl_cffi_required, session>>
tasks == <<pc, cancel_req, exc, main_i, main_err, tr_tasks, tr_pending,
           downloader_tasks>>
work == <<w_i, w_body, w_written, alloc_i, prev_downloaded, prev_speed, previous_size,
          sem_value, sem_waiters, size_done, dynamic_workers>>
caller == <<stop_pc, stop_tasks, start_ret, info>>
vars == <<cfg, mgr, tasks, work, disk, caller, hist, obs, plan, sem, cfp, pair>>

\* ------------------------------------------------------------ vocabulary
None == "None"
\* a path that holds no file (file contents are sequences of bytes >= 0)
NoFile == <<-1>>
NoError == <<>>
ProbeError(i) == <<"probe", i>>
FsError == <<"filesystem">>
CancelledError == <<"cancelled">>
ChunkError(c, i) == <<"chunk", c, i>>

\* a backoff that always sleeps one second
BackoffDelayConstant(i) == 1
\* await asyncio.sleep(2**i)
BackoffDelay(i) == 2 ^ i

\* ChunkPlanner: _multi_threaded_download / _temp_file_creator
TotalChunks(total, chunk) == (total + chunk - 1) \div chunk
ChunkStart(i, chunk) == i * chunk
Min(a, b) == IF a < b THEN a ELSE b
Max(a, b) == IF a > b THEN a ELSE b
\* a planner that does not clamp the last range to the end of the file
ChunkEndUnclamped(i, total, chunk) == ChunkStart(i, chunk) + chunk - 1
ChunkEnd(i, total, chunk) == Min(ChunkStart(i, chunk) + chunk - 1, total - 1)
ChunkLen(i, total, chunk) == ChunkEnd(i, total, chunk) - ChunkStart(i, chunk) + 1

MaxChunks == TotalChunks(Max(ContentLength, LongContentLength), ChunkSize)
Chunks == 0 .. (MaxChunks - 1)

Main == <<"main">>
Alloc == <<"alloc">>
Rep == <<"rep">>
Upd == <<"upd">>
Single == <<"single">>
W(c) == <<"w", c>>
Children == {Alloc, Rep, Upd, Single} \cup {W(c) : c \in Chunks}
Task == {Main} \cup Children

Settled == {"ok", "error", "cancelled"}
Done(t) == pc[t] \in Settled
\* a runner that never finds an exception in a done task
NoException(t) == FALSE
HasException(t) == pc[t] = "error"

\* ------------------------------------------------------------------ Init
\* workers: 0 stands for None (dynamic adjustment).
\* progress: a progress display is configured, a progress_callback or the
\* tqdm bar; _show_progress runs the same loop for both.
\* exact_bodies: not an option of the code but of the server it talks to:
\* every body it sends has exactly the requested length.
Configs ==
    { c \in [workers : {0, 1, 2}, single_threaded : BOOLEAN,
             initial_dynamic_workers : {1, 2}, progress : BOOLEAN,
             max_retries : {MaxRetries}, exact_bodies : {FALSE}] :
        \* workers == 1 is tried without the single_threaded argument
        /\ (c.workers = 1 => ~c.single_threaded /\ c.initial_dynamic_workers = 2)
        \* the options a single-stream session never reads are left at their defaults
        /\ (c.single_threaded => c.initial_dynamic_workers = 2 /\ c.workers # 2)
        /\ (c.workers = 2 => c.initial_dynamic_workers = 2)
        \* with the controller running, a task that waits for size_done to
        \* reach total_size exists whatever the progress display
        /\ (c.workers = 0 /\ ~c.single_threaded => c.progress) }

Paths == {"out", "temp"}

\* a start() that takes single_threaded as given
SingleThreadedAsGiven == cfg.single_threaded
\* __init__: self.single_threaded = single_threaded or workers == 1
SingleThreaded == cfg.single_threaded \/ cfg.workers = 1

DefaultConfig == [workers |-> 0, single_threaded |-> FALSE,
                  initial_dynamic_workers |-> 2, progress |-> TRUE,
                  max_retries |-> MaxRetries, exact_bodies |-> FALSE]

SemCallers == 1 .. NumCallers
NoPlan == [total |-> 0, chunk |-> 0, ranges |-> <<>>]
NoCfp == [files |-> {}, original |-> [parent |-> "", stem |-> "", suffix |-> ""],
          num |-> 0, path |-> <<>>, running |-> FALSE, returned |-> FALSE]
\* no pair of managers
NoPair == [files |-> <<>>, m |-> <<>>]
NoSem == [value |-> 0, limit |-> 0, waiters |-> <<>>,
          st |-> [p \in SemCallers |-> "idle"]]

\* the per-worker observer; it records only when switched on
NoLog == [reqs |-> 0, fails |-> 0, sleeps |-> <<>>, acq |-> 0, rel |-> 0]
NoObs == [on |-> FALSE, log |-> [c \in Chunks |-> NoLog], probe |-> <<>>,
          reports |-> <<>>, idle_stops |-> {}]
\* the stop() calls that found no running session: where the manager stood
ObsIdleStop(o, at) == IF o.on THEN [o EXCEPT !.idle_stops = @ \cup {at}] ELSE o
\* the progress display: the (description, done, total) of every call
ObsReport(o, ev) == IF o.on THEN [o EXCEPT !.reports = Append(@, ev)] ELSE o
\* the probe: the requests answered and the sleeps started, in order
ObsProbe(o, ev) == IF o.on THEN [o EXCEPT !.probe = Append(@, ev)] ELSE o
ObsRequest(o, c) == IF o.on THEN [o EXCEPT !.log[c].reqs = @ + 1] ELSE o
ObsFail(o, c) == IF o.on THEN [o EXCEPT !.log[c].fails = @ + 1] ELSE o
ObsSleep(o, c, d) == IF o.on THEN [o EXCEPT !.log[c].sleeps = Append(@, d)] ELSE o
ObsAcquire(o, c) == IF o.on THEN [o EXCEPT !.log[c].acq = @ + 1] ELSE o
ObsRelease(o, c) == IF o.on THEN [o EXCEPT !.log[c].rel = @ + 1] ELSE o

\* no get_file_info() call has been made
NoSession == [kind |-> None, closed |-> FALSE]
NoInfo == [pc |-> "idle", i |-> 0, session |-> NoSession, found |-> None,
           calls |-> 0, results |-> {}]

\* a manager as __init__ leaves it
ConstructedWith(config, observed) ==
    /\ cfg = config
    /\ is_running = FALSE /\ is_downloader_used = FALSE
    /\ background_download = FALSE
    /\ download_success = FALSE /\ download_error = NoError
    /\ downloader_tasks = {}
    /\ output_path = None /\ temp_file_path = None /\ filename = None
    /\ size_done = 0 /\ total_size = 0
    /\ dynamic_workers = cfg.initial_dynamic_workers
    /\ curl_cffi_required = FALSE
    /\ session = [kind |-> None, closed |-> FALSE]
    /\ pc = [t \in Task |-> "none"]
    /\ cancel_req = {}
    /\ exc = [t \in Task |-> NoError]
    /\ main_i = 0 /\ main_err = NoError
    /\ tr_tasks = {} /\ tr_pending = {}
    /\ w_i = [c \in Chunks |-> 0]
    /\ w_body = [c \in Chunks |-> 0]
    /\ w_written = [c \in Chunks |-> FALSE]
    /\ alloc_i = 0
    /\ prev_downloaded = 0 /\ prev_speed = 0 /\ previous_size = 0
    /\ sem_value = 0 /\ sem_waiters = <<>>
    /\ disk = [p \in Paths |-> NoFile]
    /\ stop_pc = "idle" /\ stop_tasks = {}
    /\ start_ret = <<"idle">>
    /\ info = NoInfo
    /\ hist = [start_raised |-> FALSE, main_created |-> 0, stopped |-> FALSE,
               renamed |-> FALSE, accept |-> None, final |-> <<>>,
               single_sleeps |-> <<>>]
    /\ obs = [NoObs EXCEPT !.on = observed]

Constructed(config) == ConstructedWith(config, FALSE)

Init ==
    /\ \E c \in Configs : Constructed(c)
    /\ plan = NoPlan
    /\ sem = NoSem
    /\ cfp = NoCfp
    /\ pair = NoPair

\* every variable not named in `changed` keeps its value
Frame(changed) ==
    /\ IF "cfg" \in changed THEN TRUE ELSE cfg' = cfg
    /\ IF "is_running" \in changed THEN TRUE ELSE is_running' = is_running
    /\ IF "is_downloader_used" \in changed THEN TRUE
       ELSE is_downloader_used' = is_downloader_used
    /\ IF "background_download" \in changed THEN TRUE
       ELSE background_download' = background_download
    /\ IF "download_success" \in changed THEN TRUE
       ELSE download_success' = download_success
    /\ IF "download_error" \in changed THEN TRUE ELSE download_error' = download_error
    /\ IF "downloader_tasks" \in changed THEN TRUE
       ELSE downloader_tasks' = downloader_tasks
    /\ IF "output_path" \in changed THEN TRUE ELSE output_path' = output_path
    /\ IF "temp_file_path" \in changed THEN TRUE ELSE temp_file_path' = temp_file_path
    /\ IF "filename" \in changed THEN TRUE ELSE filename' = filename
    /\ IF "size_done" \in changed THEN TRUE ELSE size_done' = size_done
    /\ IF "total_size" \in changed THEN TRUE ELSE total_size' = total_size
    /\ IF "dynamic_workers" \in changed THEN TRUE ELSE dynamic_workers' = dynamic_workers
    /\ IF "curl_cffi_required" \in changed THEN TRUE
       ELSE curl_cffi_required' = curl_cffi_required
    /\ IF "session" \in changed THEN TRUE ELSE session' = session
    /\ IF "pc" \in changed THEN TRUE ELSE pc' = pc
    /\ IF "cancel_req" \in changed THEN TRUE ELSE cancel_req' = cancel_req
    /\ IF "exc" \in changed THEN TRUE ELSE exc' = exc
    /\ IF "main_i" \in changed THEN TRUE ELSE main_i' = main_i
    /\ IF "main_err" \in changed THEN TRUE ELSE main_err' = main_err
    /\ IF "tr_tasks" \in changed THEN TRUE ELSE tr_tasks' = tr_tasks
    /\ IF "tr_pending" \in changed THEN TRUE ELSE tr_pending' = tr_pending
    /\ IF "w_i" \in changed THEN TRUE ELSE w_i' = w_i
    /\ IF "w_body" \in changed THEN TRUE ELSE w_body' = w_body
    /\ IF "w_written" \in changed THEN TRUE ELSE w_written' = w_written
    /\ IF "alloc_i" \in changed THEN TRUE ELSE alloc_i' = alloc_i
    /\ IF "prev_downloaded" \in changed THEN TRUE ELSE prev_downloaded' = prev_downloaded
    /\ IF "prev_speed" \in changed THEN TRUE ELSE prev_speed' = prev_speed
    /\ IF "previous_size" \in changed THEN TRUE ELSE previous_size' = previous_size
    /\ IF "sem_value" \in changed THEN TRUE ELSE sem_value' = sem_value
    /\ IF "sem_waiters" \in changed THEN TRUE ELSE sem_waiters' = sem_waiters
    /\ IF "disk" \in changed THEN TRUE ELSE disk' = disk
    /\ IF "stop_pc" \in changed THEN TRUE ELSE stop_pc' = stop_pc
    /\ IF "stop_tasks" \in changed THEN TRUE ELSE stop_tasks' = stop_tasks
    /\ IF "start_ret" \in changed THEN TRUE ELSE start_ret' = start_ret
    /\ IF "info" \in changed THEN TRUE ELSE info' = info
    /\ IF "hist" \in changed THEN TRUE ELSE hist' = hist
    /\ IF "obs" \in changed THEN TRUE ELSE obs' = obs
    /\ UNCHANGED <<plan, sem, cfp, pair>>

\* ----------------------------------------------------------- start, stop
\* start(): the two usage errors
\* a start() that only refuses while a session is running
StartRefusedWhileRunning == is_running
StartRefused == is_running \/ is_downloader_used

Start(in_background) ==
    /\ IF StartRefused
       THEN /\ hist' = [hist EXCEPT !.start_raised = TRUE]
            /\ Frame({"hist"})
       ELSE /\ pc' = [pc EXCEPT ![Main] = "created"]
            /\ downloader_tasks' = downloader_tasks \cup {Main}
            /\ is_running' = TRUE
            /\ is_downloader_used' = TRUE
            /\ background_download' = (background_download \/ in_background)
            /\ start_ret' = IF in_background THEN start_ret ELSE <<"await">>
            /\ hist' = [hist EXCEPT !.main_created = @ + 1]
            /\ Frame({"pc", "downloader_tasks", "is_running", "is_downloader_used",
                      "background_download", "start_ret", "hist"})

\* a start() that returns output_path however the main task ended
AwaitMainReturnsAlways == <<"returned", output_path>>

\* `return await main_task`: the value or the exception of the main task
AwaitMain ==
    CASE pc[Main] = "ok" -> <<"returned", output_path>>
      [] pc[Main] = "error" -> <<"raised", exc[Main]>>
      [] OTHER -> <<"raised", CancelledError>>

\* the foreground start() resumes when the main task is done
StartReturn ==
    /\ start_ret = <<"await">>
    /\ Done(Main)
    /\ start_ret' = AwaitMain
    /\ Frame({"start_ret"})

\* a _cleanup() that unlinks the output file only
CleanupKeepsTemp(d) ==
    IF is_running /\ output_path # None THEN [d EXCEPT ![output_path] = NoFile] ELSE d

\* _cleanup(): the files it unlinks
Cleanup(d) ==
    LET d1 == IF is_running /\ output_path # None
              THEN [d EXCEPT ![output_path] = NoFile] ELSE d
    IN  IF temp_file_path # None THEN [d1 EXCEPT ![temp_file_path] = NoFile] ELSE d1

CloseSession(s) == IF s.kind # None THEN [s EXCEPT !.closed = TRUE] ELSE s

\* the tasks stop() cancels and gathers
\* a stop() that leaves the main task alone
StopTargetsWithoutMain == downloader_tasks \ {Main}
StopTargets == downloader_tasks

\* a stop() that does not test is_running
StopRunsAlways == TRUE
\* line 156: `if self.is_running:`
StopRuns == is_running

\* stop(), up to its await of asyncio.gather; without a running session it
\* only logs a warning
StopCall ==
    /\ stop_pc = "idle"
    /\ IF StopRuns
       THEN /\ cancel_req' = cancel_req \cup {t \in StopTargets : ~Done(t)}
            /\ stop_tasks' = StopTargets
            /\ stop_pc' = "gather"
            /\ Frame({"cancel_req", "stop_tasks", "stop_pc"})
       ELSE /\ obs' = ObsIdleStop(obs, pc[Main])
            /\ Frame({"obs"})

\* stop(), from the return of gather to its own return
StopFinish ==
    /\ stop_pc = "gather"
    /\ \A t \in stop_tasks : Done(t)
    /\ disk' = Cleanup(disk)
    /\ session' = CloseSession(session)
    /\ is_running' = FALSE
    /\ stop_pc' = "idle"
    /\ hist' = [hist EXCEPT !.stopped = TRUE]
    /\ Frame({"disk", "session", "is_running", "stop_pc", "hist"})

\* ---------------------------------------------------------- asyncio glue
\* task t is suspended at p and no cancellation is pending for it
Runnable(t, p) == pc[t] = p /\ t \notin cancel_req

\* asyncio.create_task for the coroutines `ts`; the manager moves to mainpc
Spawned(ts, mainpc) ==
    [t \in Task |-> IF t = Main THEN mainpc
                    ELSE IF t \in ts THEN "created" ELSE pc[t]]

\* asyncio.wait(tasks, return_when=asyncio.FIRST_EXCEPTION) returns: every
\* task is done, or one of them raised (a cancelled task does not count)
\* asyncio.wait(tasks, return_when=asyncio.FIRST_COMPLETED) instead
WaitReturnsFirstCompleted(ts) == \E t \in ts : Done(t)
WaitReturns(ts) == (\A t \in ts : Done(t)) \/ (\E t \in ts : HasException(t))

\* _task_runner after the wait: `for task in done: if task.exception(): ...`
\* iterates a set, and task.exception() of a cancelled task raises
\* CancelledError
RunnerOutcomes(ts) ==
    LET done == {t \in ts : Done(t)}
        errs == {t \in done : HasException(t)}
        canc == {t \in done : pc[t] = "cancelled"}
    IN  {<<"raise", exc[t]>> : t \in errs}
        \cup (IF canc # {} THEN {<<"cancelled", CancelledError>>} ELSE {})
        \cup (IF errs = {} /\ canc = {} THEN {<<"ok", NoError>>} ELSE {})

\* the part of _download_manager's body that the `try` with
\* `except asyncio.CancelledError` covers: everything but the handler of
\* `except Exception` (and a coroutine that never started runs no handler)
CancelCaught(p) == p \notin {"created", "fail_cleanup"}

SettlePcs == {"alloc_settle", "dl_settle", "st_settle"}

\* Delivery of pending cancellations. The loop's ready queue is first in,
\* first out, and stop() calls cancel() in the order of downloader_tasks:
\* the manager, then the tasks of the running _task_runner in the order the
\* code lists them. A manager cancelled inside gather is resumed only when
\* the gathered tasks are done.
Rank(t) ==
    CASE t = Main -> 0
      [] t \in {Alloc, Single} -> 1
      [] t = Upd -> 2 + MaxChunks
      [] t = Rep -> 3 + MaxChunks
      [] OTHER -> 1 + t[2]
Deliverable(t) ==
    /\ t \in cancel_req
    /\ pc[t] \notin Settled \cup {"none"}
    /\ (t = Main /\ pc[Main] \in SettlePcs) => \A u \in tr_pending : Done(u)
CancelTurn(t) ==
    /\ Deliverable(t)
    /\ \A u \in cancel_req : Deliverable(u) => Rank(t) <= Rank(u)

\* change_file_path_if_exist(output_dir / filename) in an output directory
\* that holds no file of that name
OutputPathFor(d) == "out"
\* output_dir / (output_path.stem + ".temp")
TempPathFor(out) == "temp"

\* ------------------------------------------------------ _download_manager
\* the frame of a coroutine that has returned or raised is gone: its locals
\* are modelled back at their initial values
MainLocals == {"main_i", "main_err", "tr_tasks", "tr_pending"}
MainLocalsGone ==
    /\ main_i' = 0
    /\ main_err' = NoError
    /\ tr_tasks' = {}
    /\ tr_pending' = {}

ProbeResults == {"bytes", "other", "fail"}

MainBegin ==
    /\ Runnable(Main, "created")
    /\ size_done' = 0
    /\ main_i' = 0
    /\ session' = [kind |-> "aiohttp", closed |-> FALSE]
    /\ pc' = [pc EXCEPT ![Main] = "probe1"]
    /\ Frame({"size_done", "main_i", "session", "pc"})

\* `except Exception` of _download_manager up to the await in _cleanup
EnterFail(e) ==
    /\ disk' = Cleanup(disk)
    /\ main_err' = e
    /\ pc' = [pc EXCEPT ![Main] = "fail_cleanup"]

\* an attempt that goes on counting where the failed one stopped
SingleAttemptStartKeeps(done) == done
\* line 483: `self.size_done = 0  # Reset size_done if retrying`
SingleAttemptStart(done) == 0

\* lines 632-651: the path is resolved and one of the two strategies starts
AfterProbe(accept_ranges) ==
    /\ total_size' = ContentLength
    /\ output_path' = OutputPathFor(disk)
    /\ filename' = OutputPathFor(disk)
    /\ tr_pending' = {}
    /\ hist' = [hist EXCEPT !.accept = accept_ranges]
    /\ IF accept_ranges # "bytes" \/ SingleThreaded
       THEN /\ size_done' = SingleAttemptStart(size_done)
            /\ main_i' = 0
            /\ temp_file_path' = temp_file_path
            /\ pc' = Spawned({Single, Rep}, "st_wait")
            /\ exc' = [t \in Task |-> IF t \in {Single, Rep} THEN NoError ELSE exc[t]]
            /\ tr_tasks' = {Single, Rep}
            /\ downloader_tasks' = downloader_tasks \cup {Single, Rep}
       ELSE /\ size_done' = size_done
            /\ main_i' = main_i
            /\ temp_file_path' = TempPathFor(OutputPathFor(disk))
            /\ pc' = Spawned({Alloc, Rep}, "alloc_wait")
            /\ exc' = [t \in Task |-> IF t \in {Alloc, Rep} THEN NoError ELSE exc[t]]
            /\ tr_tasks' = {Alloc, Rep}
            /\ downloader_tasks' = downloader_tasks \cup {Alloc, Rep}

AfterProbeVars == {"hist", "total_size", "output_path", "filename", "tr_pending", "size_done", "main_i",
                   "temp_file_path", "pc", "exc", "tr_tasks", "downloader_tasks"}

\* a probe that gives up after any failed round
ProbeRoundIsLastAlways(i) == TRUE
\* line 622: if i == self.max_retries - 1
ProbeRoundIsLast(i) == i = cfg.max_retries - 1

\* the response (or failure) of the probe through aiohttp
MainProbePrimary ==
    /\ Runnable(Main, "probe1")
    /\ obs' = ObsProbe(obs, <<"primary", main_i>>)
    /\ \E r \in ProbeResults :
        IF r = "fail"
        THEN /\ pc' = [pc EXCEPT ![Main] = "probe_fallback"]
             /\ Frame({"pc", "obs"})
        ELSE /\ AfterProbe(r)
             /\ Frame(AfterProbeVars \cup {"obs"})

\* lines 592-599: the aiohttp session is closed, a curl_cffi session replaces it
MainProbeFallback ==
    /\ Runnable(Main, "probe_fallback")
    /\ session' = [kind |-> "curl_cffi", closed |-> FALSE]
    /\ curl_cffi_required' = TRUE
    /\ pc' = [pc EXCEPT ![Main] = "probe2"]
    /\ Frame({"session", "curl_cffi_required", "pc"})

\* the response (or failure) of the probe through curl_cffi
MainProbeSecondary ==
    /\ Runnable(Main, "probe2")
    /\ \E r \in ProbeResults :
        IF r = "fail"
        THEN IF ProbeRoundIsLast(main_i)
             THEN /\ pc' = [pc EXCEPT ![Main] = "probe_giveup"]
                  /\ obs' = ObsProbe(obs, <<"secondary", main_i>>)
                  /\ Frame({"pc", "obs"})
             ELSE /\ pc' = [pc EXCEPT ![Main] = "probe_sleep"]
                  /\ obs' = ObsProbe(ObsProbe(obs, <<"secondary", main_i>>),
                                     <<"sleep", BackoffDelay(main_i)>>)
                  /\ Frame({"pc", "obs"})
        ELSE /\ AfterProbe(r)
             /\ obs' = ObsProbe(obs, <<"secondary", main_i>>)
             /\ Frame(AfterProbeVars \cup {"obs"})

\* lines 622-625: the last round closes the session and re-raises
MainProbeGiveUp ==
    /\ Runnable(Main, "probe_giveup")
    /\ session' = CloseSession(session)
    /\ EnterFail(ProbeError(main_i))
    /\ Frame({"session", "disk", "main_err", "pc"})

\* the backoff sleep ends; the next round closes the session (line 562)
MainProbeSleep ==
    /\ Runnable(Main, "probe_sleep")
    /\ main_i' = main_i + 1
    /\ pc' = [pc EXCEPT ![Main] = "probe_reopen"]
    /\ Frame({"main_i", "pc"})

\* line 563: the round opens a new aiohttp session
MainProbeReopen ==
    /\ Runnable(Main, "probe_reopen")
    /\ session' = [kind |-> "aiohttp", closed |-> FALSE]
    /\ pc' = [pc EXCEPT ![Main] = "probe1"]
    /\ Frame({"session", "pc"})

\* ---------------------------------------------------- AdjustableSemaphore
\* set_limit: self._value += new_limit - self._value
SemSetLimit(value, new_limit) == value + (new_limit - value)

\* an acquire that waits only below zero
MustWaitBelowZero(value) == value < 0
\* acquire: `while self._value <= 0: await self._condition.wait()`
MustWait(value) == value <= 0

\* a release() that wakes nobody
NotifiedNobody(waiters) == {}
\* Condition.notify(): the first waiter; notify_all(): every waiter
Notified(waiters) == IF waiters = <<>> THEN {} ELSE {Head(waiters)}
AfterNotify(waiters) == IF waiters = <<>> THEN <<>> ELSE Tail(waiters)
SeqRange(q) == {q[k] : k \in 1 .. Len(q)}
Without(q, x) == SelectSeq(q, LAMBDA y : y # x)

\* ----------------------------------------------------------- _task_runner
\* the download phase starts: lines 518-539
BeginDownload ==
    LET ws == {W(c) : c \in 0 .. (TotalChunks(total_size, ChunkSize) - 1)}
        new == ws \cup (IF cfg.workers # 0 THEN {} ELSE {Upd}) \cup {Rep}
    IN  /\ size_done' = 0
        /\ dynamic_workers' = IF cfg.workers # 0 THEN cfg.workers ELSE dynamic_workers
        /\ sem_value' = IF cfg.workers # 0
                        THEN SemSetLimit(dynamic_workers, cfg.workers)
                        ELSE dynamic_workers
        /\ sem_waiters' = <<>>
        /\ pc' = Spawned(new, "dl_wait")
        /\ exc' = [t \in Task |-> IF t \in new THEN NoError ELSE exc[t]]
        /\ tr_tasks' = new
        /\ tr_pending' = {}
        /\ downloader_tasks' = (downloader_tasks \ tr_tasks) \cup new

\* _multi_threaded_download lets the error through to _download_manager
MultiRaise(e) == EnterFail(e)

\* _single_threaded_download: the last attempt re-raises, the others back off
SingleRaise(e) ==
    IF main_i = cfg.max_retries - 1
    THEN EnterFail(e)
    ELSE /\ pc' = [pc EXCEPT ![Main] = "st_sleep"]
         /\ main_err' = e
         /\ disk' = disk

Raise(e, single) == IF single THEN SingleRaise(e) ELSE MultiRaise(e)

\* a done task holds an exception: cancel the pending ones, gather them and
\* re-raise (gather of nothing does not suspend)
RunnerRaise(e, settlepc) ==
    LET pending == {t \in tr_tasks : ~Done(t)}
    IN  /\ downloader_tasks' = downloader_tasks \ tr_tasks
        /\ cancel_req' = cancel_req \cup pending
        /\ tr_pending' = pending
        /\ IF pending = {}
           THEN Raise(e, settlepc = "st_settle")
           ELSE /\ pc' = [pc EXCEPT ![Main] = settlepc]
                /\ main_err' = e
                /\ disk' = disk

RunnerRaiseVars == {"downloader_tasks", "cancel_req", "tr_pending", "pc", "main_err",
                    "disk"}

\* task.exception() raised CancelledError inside _task_runner
RunnerCancelled ==
    /\ downloader_tasks' = downloader_tasks \ tr_tasks
    /\ download_error' = CancelledError
    /\ pc' = [pc EXCEPT ![Main] = "cancelled"]
    /\ MainLocalsGone

RunnerCancelledVars == {"downloader_tasks", "download_error", "pc"} \cup MainLocals

\* the wait for the allocator and its reporter returns
MainAllocWait ==
    /\ Runnable(Main, "alloc_wait")
    /\ WaitReturns(tr_tasks)
    /\ \E o \in RunnerOutcomes(tr_tasks) :
        CASE o[1] = "ok" ->
                /\ BeginDownload
                /\ Frame({"size_done", "dynamic_workers", "sem_value", "sem_waiters",
                          "pc", "exc", "tr_tasks", "tr_pending", "downloader_tasks"})
          [] o[1] = "raise" ->
                /\ RunnerRaise(o[2], "alloc_settle")
                /\ Frame(RunnerRaiseVars)
          [] OTHER ->
                /\ RunnerCancelled
                /\ Frame(RunnerCancelledVars)

\* the wait for the chunk workers, the controller and the reporter returns;
\* lines 540-541 and 653-655 follow without a suspension
MainDlWait ==
    /\ Runnable(Main, "dl_wait")
    /\ WaitReturns(tr_tasks)
    /\ \E o \in RunnerOutcomes(tr_tasks) :
        CASE o[1] = "ok" ->
                IF disk[temp_file_path] = NoFile
                THEN /\ downloader_tasks' = downloader_tasks \ tr_tasks
                     /\ MultiRaise(FsError)
                     /\ Frame({"downloader_tasks", "disk", "main_err", "pc"})
                ELSE /\ downloader_tasks' = downloader_tasks \ tr_tasks
                     /\ disk' = [disk EXCEPT ![output_path] = disk[temp_file_path],
                                             ![temp_file_path] = NoFile]
                     /\ temp_file_path' = None
                     /\ is_running' = FALSE
                     /\ pc' = [pc EXCEPT ![Main] = "closing"]
                     /\ hist' = [hist EXCEPT !.renamed = TRUE]
                     /\ Frame({"downloader_tasks", "disk", "temp_file_path",
                               "is_running", "pc", "hist"})
          [] o[1] = "raise" ->
                /\ RunnerRaise(o[2], "dl_settle")
                /\ Frame(RunnerRaiseVars)
          [] OTHER ->
                /\ RunnerCancelled
                /\ Frame(RunnerCancelledVars)

\* the wait for the stream download and its reporter returns
MainSingleWait ==
    /\ Runnable(Main, "st_wait")
    /\ WaitReturns(tr_tasks)
    /\ \E o \in RunnerOutcomes(tr_tasks) :
        CASE o[1] = "ok" ->
                /\ downloader_tasks' = downloader_tasks \ tr_tasks
                /\ is_running' = FALSE
                /\ pc' = [pc EXCEPT ![Main] = "closing"]
                /\ Frame({"downloader_tasks", "is_running", "pc"})
          [] o[1] = "raise" ->
                /\ RunnerRaise(o[2], "st_settle")
                /\ Frame(RunnerRaiseVars)
          [] OTHER ->
                /\ RunnerCancelled
                /\ Frame(RunnerCancelledVars)

\* asyncio.gather(*pending, return_exceptions=True) returns: re-raise
MainSettle ==
    /\ pc[Main] \in SettlePcs
    /\ Main \notin cancel_req
    /\ \A t \in tr_pending : Done(t)
    /\ Raise(main_err, pc[Main] = "st_settle")
    /\ Frame({"disk", "main_err", "pc"})

\* the backoff sleep of _single_threaded_download ends: next attempt
\* (hist.single_sleeps records the sleep that has just returned)
MainSingleSleep ==
    /\ Runnable(Main, "st_sleep")
    /\ hist' = [hist EXCEPT !.single_sleeps = Append(@, BackoffDelay(main_i))]
    /\ main_i' = main_i + 1
    /\ size_done' = SingleAttemptStart(size_done)
    /\ pc' = Spawned({Single, Rep}, "st_wait")
    /\ exc' = [t \in Task |-> IF t \in {Single, Rep} THEN NoError ELSE exc[t]]
    /\ tr_tasks' = {Single, Rep}
    /\ tr_pending' = {}
    /\ downloader_tasks' = downloader_tasks \cup {Single, Rep}
    /\ Frame({"main_i", "size_done", "pc", "exc", "tr_tasks", "tr_pending",
              "downloader_tasks", "hist"})

\* lines 655-658: session.close() returns
MainClosing ==
    /\ Runnable(Main, "closing")
    /\ session' = CloseSession(session)
    /\ download_success' = TRUE
    /\ pc' = [pc EXCEPT ![Main] = "ok"]
    /\ MainLocalsGone
    /\ Frame({"session", "download_success", "pc"} \cup MainLocals)

\* lines 666-669: _cleanup() returns
MainFailDone ==
    /\ Runnable(Main, "fail_cleanup")
    /\ session' = CloseSession(session)
    /\ is_running' = FALSE
    /\ download_error' = main_err
    /\ exc' = [exc EXCEPT ![Main] = main_err]
    /\ pc' = [pc EXCEPT ![Main] = "error"]
    /\ MainLocalsGone
    /\ Frame({"session", "is_running", "download_error", "exc", "pc"} \cup MainLocals)

\* CancelledError is thrown into the manager at its suspension point
MainCancelled ==
    /\ CancelTurn(Main)
    /\ cancel_req' = cancel_req \ {Main}
    /\ download_error' = IF CancelCaught(pc[Main]) THEN CancelledError
                         ELSE download_error
    /\ pc' = [pc EXCEPT ![Main] = "cancelled"]
    /\ MainLocalsGone
    /\ Frame({"cancel_req", "download_error", "pc"} \cup MainLocals)

\* ------------------------------------------------------------ child tasks
\* a counter that is assigned the length instead of being incremented by it
CountedAssigned(done, n) == n
\* a counter that adds every length twice
CountedTwice(done, n) == done + n + n
\* self.size_done += len(chunk)
Counted(done, n) == done + n

Zeros(n) == [k \in 1 .. n |-> 0]
Bytes(n, tag) == [k \in 1 .. n |-> tag]

\* open(path, "r+b"); seek(start); write(body): the bytes of `body` carry `tag`
WriteAt(file, start, n, tag) ==
    [k \in 1 .. Max(Len(file), start + n) |->
        IF k > start /\ k <= start + n THEN tag
        ELSE IF k <= Len(file) THEN file[k] ELSE 0]

\* CancelledError is thrown into the allocator, the reporter, the controller
\* or the stream download: none of them catches it
ChildCancelled(t) ==
    /\ t \in {Alloc, Rep, Upd, Single}
    /\ CancelTurn(t)
    /\ cancel_req' = cancel_req \ {t}
    /\ pc' = [pc EXCEPT ![t] = "cancelled"]
    /\ alloc_i' = IF t = Alloc THEN 0 ELSE alloc_i
    /\ prev_downloaded' = IF t = Upd THEN 0 ELSE prev_downloaded
    /\ prev_speed' = IF t = Upd THEN 0 ELSE prev_speed
    /\ previous_size' = IF t = Rep THEN 0 ELSE previous_size
    /\ Frame({"cancel_req", "pc", "alloc_i", "prev_downloaded", "prev_speed",
              "previous_size"})

\* _temp_file_creator: aiofiles.open(temp_file_path, "wb") returns or raises
AllocOpen ==
    /\ Runnable(Alloc, "created")
    /\ \E ok \in BOOLEAN :
        IF ok
        THEN /\ disk' = [disk EXCEPT ![temp_file_path] = <<>>]
             /\ alloc_i' = 0
             /\ pc' = [pc EXCEPT ![Alloc] = "write"]
             /\ Frame({"disk", "alloc_i", "pc"})
        ELSE /\ exc' = [exc EXCEPT ![Alloc] = FsError]
             /\ pc' = [pc EXCEPT ![Alloc] = "error"]
             /\ Frame({"exc", "pc"})

\* _temp_file_creator: one file.write of the loop returns or raises
AllocWrite ==
    /\ Runnable(Alloc, "write")
    /\ \E ok \in BOOLEAN :
        IF ok
        THEN LET n == ChunkLen(alloc_i, total_size, ChunkSize)
             IN  /\ disk' = [disk EXCEPT ![temp_file_path] = @ \o Zeros(n)]
                 /\ size_done' = Counted(size_done, n)
                 /\ alloc_i' = IF alloc_i + 1 = TotalChunks(total_size, ChunkSize)
                               THEN 0 ELSE alloc_i + 1
                 /\ pc' = [pc EXCEPT ![Alloc] =
                              IF alloc_i + 1 = TotalChunks(total_size, ChunkSize)
                              THEN "ok" ELSE "write"]
                 /\ Frame({"disk", "size_done", "alloc_i", "pc"})
        ELSE /\ exc' = [exc EXCEPT ![Alloc] = FsError]
             /\ pc' = [pc EXCEPT ![Alloc] = "error"]
             /\ alloc_i' = 0
             /\ Frame({"exc", "pc", "alloc_i"})

\* the description _show_progress was created with: "Creating Temp File"
\* beside the allocator (no chunk worker exists yet), "Downloading" otherwise
RepDescription ==
    IF pc[Alloc] # "none" /\ \A c \in Chunks : pc[W(c)] = "none"
    THEN "Creating Temp File" ELSE "Downloading"

\* a final report that passes the bytes counted so far
FinalDoneCurrent(done, total) == done
\* the done argument of the call after the loop: self.total_size
FinalDone(done, total) == total

\* a reporter that reports in every iteration
ReportDueAlways(done, prev) == TRUE
\* lines 304 / 341: `if self.size_done != previous_size:`
ReportDue(done, prev) == done # prev

\* _show_progress: the loop test, at the start (previous_size = 0) and after
\* every sleep, then the report of a changed size and the next sleep; when
\* the loop is over the final report is made (hist.final records it)
RepStep ==
    /\ pc[Rep] \in {"created", "sleep"}
    /\ Rep \notin cancel_req
    /\ pc' = [pc EXCEPT ![Rep] = IF cfg.progress /\ size_done < total_size
                                 THEN "sleep" ELSE "ok"]
    /\ hist' = IF cfg.progress /\ ~(size_done < total_size)
               THEN [hist EXCEPT !.final =
                        Append(@, <<RepDescription, FinalDone(size_done, total_size)>>)]
               ELSE hist
    /\ LET prev == IF pc[Rep] = "created" THEN 0 ELSE previous_size
       IN  IF cfg.progress /\ size_done < total_size
           THEN /\ obs' = IF ReportDue(size_done, prev)
                          THEN ObsReport(obs, <<RepDescription, size_done, total_size>>)
                          ELSE obs
                /\ previous_size' = IF ReportDue(size_done, prev)
                                    THEN size_done ELSE prev
           ELSE /\ obs' = IF cfg.progress
                          THEN ObsReport(obs, <<RepDescription,
                                   FinalDone(size_done, total_size), total_size>>)
                          ELSE obs
                /\ previous_size' = 0
    /\ Frame({"pc", "hist", "obs", "previous_size"})

\* _dynamic_worker_updater up to its first sleep
UpdBegin ==
    /\ Runnable(Upd, "created")
    /\ prev_downloaded' = 0
    /\ prev_speed' = 0
    /\ pc' = [pc EXCEPT ![Upd] = IF size_done >= total_size THEN "ok" ELSE "sleep"]
    /\ Frame({"prev_downloaded", "prev_speed", "pc"})

\* speed = (size_done - prev_downloaded) / dynamic_workers_update_interval;
\* the interval is a positive constant, so speeds compare as these differences
Speed(done, prev) == done - prev

\* a controller that subtracts 2 without a floor
NextWorkersNoFloor(speed, prev, dw) ==
    IF speed > prev THEN dw + 2
    ELSE IF speed < prev THEN dw - 2 ELSE dw

\* the limit the controller applies after one sample
NextWorkers(speed, prev, dw) ==
    IF speed > prev THEN dw + 2
    ELSE IF speed < prev THEN Max(2, dw - 2) ELSE dw

\* _dynamic_worker_updater: one sample after a sleep
UpdSample ==
    /\ Runnable(Upd, "sleep")
    /\ LET speed == Speed(size_done, prev_downloaded)
           dw == NextWorkers(speed, prev_speed, dynamic_workers)
           woken == IF speed # prev_speed THEN SeqRange(sem_waiters) ELSE {}
       IN  /\ dynamic_workers' = dw
           /\ sem_value' = IF speed # prev_speed THEN SemSetLimit(sem_value, dw)
                           ELSE sem_value
           /\ sem_waiters' = IF speed # prev_speed THEN <<>> ELSE sem_waiters
           /\ prev_downloaded' = IF size_done >= total_size THEN 0 ELSE size_done
           /\ prev_speed' = IF size_done >= total_size THEN 0 ELSE speed
           /\ pc' = [t \in Task |->
                        IF t = Upd
                        THEN (IF size_done >= total_size THEN "ok" ELSE "sleep")
                        ELSE IF t \in woken THEN "sem_woken" ELSE pc[t]]
    /\ Frame({"dynamic_workers", "sem_value", "sem_waiters", "prev_downloaded",
              "prev_speed", "pc"})

\* _single_threaded_download_child: session.get and the open of output_path
\* return, or one of them raises
StreamError(i) == <<"stream", i>>

SingleResponse ==
    /\ Runnable(Single, "created")
    /\ \E ok \in BOOLEAN :
        IF ok
        THEN /\ disk' = [disk EXCEPT ![output_path] = <<>>]
             /\ pc' = [pc EXCEPT ![Single] = "stream"]
             /\ Frame({"disk", "pc"})
        ELSE /\ exc' = [exc EXCEPT ![Single] = StreamError(main_i)]
             /\ pc' = [pc EXCEPT ![Single] = "error"]
             /\ Frame({"exc", "pc"})

\* one read of the stream: a piece of at most chunk_size bytes that is
\* written to the file, the end of the body, or an error
SingleRead ==
    /\ Runnable(Single, "stream")
    /\ disk[output_path] # NoFile
    /\ LET left == total_size - Len(disk[output_path])
           ends == IF left > 0 /\ cfg.exact_bodies THEN {} ELSE {"eof"}
       IN  \E r \in (IF left > 0 THEN {"data"} ELSE {}) \cup ends \cup {"fail"} :
            CASE r = "data" ->
                    /\ disk' = [disk EXCEPT ![output_path] =
                                   @ \o Bytes(Min(ChunkSize, left), main_i + 1)]
                    /\ size_done' = Counted(size_done, Min(ChunkSize, left))
                    /\ Frame({"disk", "size_done"})
              [] r = "eof" ->
                    /\ pc' = [pc EXCEPT ![Single] = "ok"]
                    /\ Frame({"pc"})
              [] OTHER ->
                    /\ exc' = [exc EXCEPT ![Single] = StreamError(main_i)]
                    /\ pc' = [pc EXCEPT ![Single] = "error"]
                    /\ Frame({"exc", "pc"})

\* ------------------------------------------------------------ _load_chunk
\* what response.content.read() may return for `Range: bytes=start-end`:
\* the code checks neither the status nor the length of the body
BodyLens(c) ==
    LET n == ChunkLen(c, total_size, ChunkSize)
    IN  IF cfg.exact_bodies THEN {n} ELSE {n - 1, n, n + 1} \ {-1}

\* semaphore.release() by `self`, which then settles as `selfpc`
Release(self, selfpc) ==
    /\ sem_value' = sem_value + 1
    /\ obs' = ObsRelease(IF selfpc = "error" THEN ObsFail(obs, self[2]) ELSE obs,
                         self[2])
    /\ sem_waiters' = AfterNotify(sem_waiters)
    /\ pc' = [t \in Task |-> IF t = self THEN selfpc
                             ELSE IF t \in Notified(sem_waiters) THEN "sem_woken"
                             ELSE pc[t]]

\* acquire(): `while self._value <= 0: wait()`, then `self._value -= 1`
Acquire(c) ==
    IF ~MustWait(sem_value)
    THEN /\ sem_value' = sem_value - 1
         /\ sem_waiters' = sem_waiters
         /\ w_i' = [w_i EXCEPT ![c] = 0]
         /\ obs' = ObsRequest(ObsAcquire(obs, c), c)
         /\ pc' = [pc EXCEPT ![W(c)] = "get"]
    ELSE /\ sem_value' = sem_value
         /\ sem_waiters' = Append(sem_waiters, W(c))
         /\ w_i' = w_i
         /\ obs' = obs
         /\ pc' = [pc EXCEPT ![W(c)] = "sem_wait"]

\* the worker starts, or wakes up inside Condition.wait()
WorkerAcquire(c) ==
    /\ pc[W(c)] \in {"created", "sem_woken"}
    /\ W(c) \notin cancel_req
    /\ Acquire(c)
    /\ Frame({"sem_value", "sem_waiters", "w_i", "pc", "obs"})

\* an attempt failed: the last one re-raises (and the finally releases)
AttemptFailed(c) ==
    IF w_i[c] = cfg.max_retries - 1
    THEN /\ exc' = [exc EXCEPT ![W(c)] = ChunkError(c, w_i[c])]
         /\ w_i' = [w_i EXCEPT ![c] = 0]
         /\ w_body' = [w_body EXCEPT ![c] = 0]
         /\ Release(W(c), "error")
    ELSE /\ exc' = exc
         /\ w_i' = w_i
         /\ w_body' = [w_body EXCEPT ![c] = 0]
         /\ sem_value' = sem_value
         /\ sem_waiters' = sem_waiters
         /\ obs' = ObsSleep(ObsFail(obs, c), c, BackoffDelay(w_i[c]))
         /\ pc' = [pc EXCEPT ![W(c)] = "backoff"]

AttemptFailedVars == {"exc", "w_i", "w_body", "sem_value", "sem_waiters", "pc", "obs"}

\* session.get / response.content.read() return a body, or raise
WorkerResponse(c) ==
    /\ Runnable(W(c), "get")
    /\ \E r \in BodyLens(c) \cup {-1} :
        IF r = -1
        THEN /\ AttemptFailed(c)
             /\ Frame(AttemptFailedVars)
        ELSE /\ w_body' = [w_body EXCEPT ![c] = r]
             /\ pc' = [pc EXCEPT ![W(c)] = "write"]
             /\ Frame({"w_body", "pc"})

\* the open / seek / write of the chunk return (open(..., "r+b") raises
\* when the file is missing), then size_done += len(chunk) and the release;
\* w_body[c] stays as the record of the body that was written
WorkerWrite(c) ==
    /\ Runnable(W(c), "write")
    /\ IF disk[temp_file_path] = NoFile
       THEN /\ AttemptFailed(c)
            /\ Frame(AttemptFailedVars)
       ELSE /\ disk' = [disk EXCEPT ![temp_file_path] =
                           WriteAt(@, ChunkStart(c, ChunkSize), w_body[c], c + 1)]
            /\ size_done' = Counted(size_done, w_body[c])
            /\ w_written' = [w_written EXCEPT ![c] = TRUE]
            /\ w_i' = [w_i EXCEPT ![c] = 0]
            /\ Release(W(c), "ok")
            /\ Frame({"disk", "size_done", "w_written", "w_i", "sem_value",
                      "sem_waiters", "pc", "obs"})

\* the backoff sleep ends: next attempt
WorkerBackoff(c) ==
    /\ Runnable(W(c), "backoff")
    /\ w_i' = [w_i EXCEPT ![c] = @ + 1]
    /\ obs' = ObsRequest(obs, c)
    /\ pc' = [pc EXCEPT ![W(c)] = "get"]
    /\ Frame({"w_i", "pc", "obs"})

\* a worker whose acquire() is covered by the try as well
BeforeTryOnlyUnstarted(p) == p = "created"
\* line 362: `await semaphore.acquire()` stands before the `try`; these are
\* the positions of a worker that has not completed it
BeforeTry(p) == p \in {"created", "sem_wait", "sem_woken"}

\* CancelledError is thrown into the worker. Before or inside acquire() it
\* propagates (acquire is outside the try); a cancelled Condition.wait()
\* passes a notification on or not, depending on the Python version. Inside
\* the try it is swallowed and the finally releases.
WorkerCancelled(c) ==
    /\ CancelTurn(W(c))
    /\ cancel_req' = cancel_req \ {W(c)}
    /\ IF BeforeTry(pc[W(c)])
       THEN \E pass \in BOOLEAN :
             LET rest == Without(sem_waiters, W(c))
                 wake == IF pass /\ pc[W(c)] # "created" THEN Notified(rest) ELSE {}
             IN  /\ sem_waiters' = IF wake = {} THEN rest ELSE Tail(rest)
                 /\ sem_value' = sem_value
                 /\ obs' = obs
                 /\ pc' = [t \in Task |-> IF t = W(c) THEN "cancelled"
                                          ELSE IF t \in wake THEN "sem_woken"
                                          ELSE pc[t]]
       ELSE Release(W(c), "ok")
    /\ w_i' = [w_i EXCEPT ![c] = 0]
    /\ w_body' = [w_body EXCEPT ![c] = 0]
    /\ Frame({"cancel_req", "sem_waiters", "sem_value", "pc", "w_i", "w_body", "obs"})

\* ------------------------------------------------------------------ Next
Next ==
    \/ \E b \in BOOLEAN : Start(b)
    \/ StartReturn
    \/ StopCall
    \/ StopFinish
    \/ MainBegin
    \/ MainProbePrimary
    \/ MainProbeFallback
    \/ MainProbeSecondary
    \/ MainProbeGiveUp
    \/ MainProbeReopen
    \/ MainProbeSleep
    \/ MainAllocWait
    \/ MainDlWait
    \/ MainSingleWait
    \/ MainSettle
    \/ MainSingleSleep
    \/ MainClosing
    \/ MainFailDone
    \/ MainCancelled
    \/ \E t \in Children : ChildCancelled(t)
    \/ AllocOpen
    \/ AllocWrite
    \/ RepStep
    \/ UpdBegin
    \/ UpdSample
    \/ SingleResponse
    \/ SingleRead
    \/ \E c \in Chunks : WorkerAcquire(c)
    \/ \E c \in Chunks : WorkerResponse(c)
    \/ \E c \in Chunks : WorkerWrite(c)
    \/ \E c \in Chunks : WorkerBackoff(c)
    \/ \E c \in Chunks : WorkerCancelled(c)

Spec == Init /\ [][Next]_vars

\* ------------------------------------------------- the chunk planner alone
\* total_chunks ranges are computed one by one, as the loops of
\* _temp_file_creator and _multi_threaded_download compute them
ManagerIdle == Constructed(DefaultConfig)
ManagerUnchanged == UNCHANGED <<cfg, mgr, tasks, work, disk, caller, hist, obs>>

InitPlan ==
    /\ ManagerIdle
    /\ sem = NoSem
    /\ cfp = NoCfp
    /\ pair = NoPair
    /\ \E t \in 1 .. MaxTotalSize, c \in 1 .. MaxChunkSize :
         plan = [total |-> t, chunk |-> c, ranges |-> <<>>]

PlanChunk ==
    LET i == Len(plan.ranges)
    IN  /\ plan.total > 0
        /\ i < TotalChunks(plan.total, plan.chunk)
        /\ plan' = [plan EXCEPT !.ranges =
                       Append(@, <<ChunkStart(i, plan.chunk),
                                   ChunkEnd(i, plan.total, plan.chunk)>>)]
        /\ UNCHANGED <<sem, cfp, pair>>
        /\ ManagerUnchanged

NextPlan == PlanChunk
SpecPlan == InitPlan /\ [][NextPlan]_vars

\* ------------------------------------------------ the download phase alone
\* a pinned worker count smaller than the number of chunks
PinnedConfig == [workers |-> 2, single_threaded |-> FALSE,
                 initial_dynamic_workers |-> 1, progress |-> FALSE,
                 max_retries |-> LongRetries, exact_bodies |-> FALSE]

\* the state in which _multi_threaded_download's first _task_runner call is
\* about to return: the allocator and its reporter are done, the temp file
\* holds `len` zero bytes
DownloadReady(config, len, observed) ==
    /\ cfg = config
    /\ is_running = TRUE /\ is_downloader_used = TRUE
    /\ background_download = TRUE
    /\ download_success = FALSE /\ download_error = NoError
    /\ downloader_tasks = {Main, Alloc, Rep}
    /\ output_path = "out" /\ temp_file_path = "temp" /\ filename = "out"
    /\ size_done = len /\ total_size = len
    /\ dynamic_workers = cfg.initial_dynamic_workers
    /\ curl_cffi_required = FALSE
    /\ session = [kind |-> "aiohttp", closed |-> FALSE]
    /\ pc = [t \in Task |-> IF t = Main THEN "alloc_wait"
                            ELSE IF t \in {Alloc, Rep} THEN "ok" ELSE "none"]
    /\ cancel_req = {}
    /\ exc = [t \in Task |-> NoError]
    /\ main_i = 0 /\ main_err = NoError
    /\ tr_tasks = {Alloc, Rep} /\ tr_pending = {}
    /\ w_i = [c \in Chunks |-> 0]
    /\ w_body = [c \in Chunks |-> 0]
    /\ w_written = [c \in Chunks |-> FALSE]
    /\ alloc_i = 0
    /\ prev_downloaded = 0 /\ prev_speed = 0 /\ previous_size = 0
    /\ sem_value = 0 /\ sem_waiters = <<>>
    /\ disk = [p \in Paths |-> IF p = "temp" THEN Zeros(len) ELSE NoFile]
    /\ stop_pc = "idle" /\ stop_tasks = {}
    /\ start_ret = <<"idle">>
    /\ info = NoInfo
    /\ hist = [start_raised |-> FALSE, main_created |-> 1, stopped |-> FALSE,
               renamed |-> FALSE, accept |-> "bytes", final |-> <<>>,
               single_sleeps |-> <<>>]
    /\ obs = [NoObs EXCEPT !.on = observed]

InitDownload ==
    /\ DownloadReady(PinnedConfig, LongContentLength, TRUE)
    /\ plan = NoPlan
    /\ sem = NoSem
    /\ cfp = NoCfp
    /\ pair = NoPair

NextDownload ==
    \/ MainAllocWait
    \/ MainDlWait
    \/ MainSettle
    \/ MainClosing
    \/ MainFailDone
    \/ \E t \in Children : ChildCancelled(t)
    \/ RepStep
    \/ \E c \in Chunks : WorkerAcquire(c)
    \/ \E c \in Chunks : WorkerResponse(c)
    \/ \E c \in Chunks : WorkerWrite(c)
    \/ \E c \in Chunks : WorkerBackoff(c)
    \/ \E c \in Chunks : WorkerCancelled(c)
SpecDownload == InitDownload /\ [][NextDownload]_vars

\* ----------------------------------------------------- the semaphore alone
\* callers that acquire, hold and release, and set_limit calls, in any order
InitSem ==
    /\ ManagerIdle
    /\ plan = NoPlan
    /\ cfp = NoCfp
    /\ pair = NoPair
    /\ \E v \in 1 .. MaxLimit :
         sem = [value |-> v, limit |-> v, waiters |-> <<>>,
                st |-> [p \in SemCallers |-> "idle"]]

\* acquire() is called, or resumes after a notification
SemAcquire(p) ==
    /\ sem.st[p] \in {"idle", "woken"}
    /\ sem' = IF MustWait(sem.value)
              THEN [sem EXCEPT !.waiters = Append(@, p), !.st[p] = "wait"]
              ELSE [sem EXCEPT !.value = @ - 1, !.st[p] = "held"]
    /\ UNCHANGED <<plan, cfp, pair>>
    /\ ManagerUnchanged

\* release() by a holder
SemRelease(p) ==
    /\ sem.st[p] = "held"
    /\ sem' = [sem EXCEPT
                 !.value = @ + 1,
                 !.waiters = AfterNotify(@),
                 !.st = [q \in SemCallers |->
                            IF q = p THEN "idle"
                            ELSE IF q \in Notified(sem.waiters) THEN "woken"
                            ELSE sem.st[q]]]
    /\ UNCHANGED <<plan, cfp, pair>>
    /\ ManagerUnchanged

\* set_limit(new_limit)
SemSetLimitCall(new_limit) ==
    /\ sem' = [sem EXCEPT
                 !.value = SemSetLimit(@, new_limit),
                 !.limit = new_limit,
                 !.waiters = <<>>,
                 !.st = [q \in SemCallers |->
                            IF q \in SeqRange(sem.waiters) THEN "woken"
                            ELSE sem.st[q]]]
    /\ UNCHANGED <<plan, cfp, pair>>
    /\ ManagerUnchanged

NextSem ==
    \/ \E p \in SemCallers : SemAcquire(p)
    \/ \E p \in SemCallers : SemRelease(p)
    \/ \E n \in 0 .. MaxLimit : SemSetLimitCall(n)
SpecSem == InitSem /\ [][NextSem]_vars

\* the same callers with limits of at least 1, scheduled fairly: a caller
\* that can take its next step takes it, and every holder releases
NextSemFair ==
    \/ \E p \in SemCallers : SemAcquire(p)
    \/ \E p \in SemCallers : SemRelease(p)
    \/ \E n \in 1 .. MaxLimit : SemSetLimitCall(n)
SpecSemFair ==
    /\ InitSem
    /\ [][NextSemFair]_vars
    /\ \A p \in SemCallers : WF_vars(SemAcquire(p)) /\ WF_vars(SemRelease(p))

\* ------------------------------------------------- the probe phase alone
\* the probing rounds of a session, observed; the tasks a successful probe
\* creates belong to the other specifications and take no step here
ProbeConfig == [DefaultConfig EXCEPT !.max_retries = LongRetries]

InitProbe ==
    /\ ConstructedWith(ProbeConfig, TRUE)
    /\ plan = NoPlan
    /\ sem = NoSem
    /\ cfp = NoCfp
    /\ pair = NoPair

NextProbe ==
    \/ \E b \in BOOLEAN : Start(b)
    \/ StartReturn
    \/ StopCall
    \/ StopFinish
    \/ MainBegin
    \/ MainProbePrimary
    \/ MainProbeFallback
    \/ MainProbeSecondary
    \/ MainProbeGiveUp
    \/ MainProbeReopen
    \/ MainProbeSleep
    \/ MainFailDone
    \/ MainCancelled
SpecProbe == InitProbe /\ [][NextProbe]_vars

\* ------------------------------------ sessions that nobody stops, fairly
\* every configuration, against a server that sends bodies of the requested
\* length
LiveConfigs == {[c EXCEPT !.exact_bodies = TRUE] : c \in Configs}

InitLive ==
    /\ \E c \in LiveConfigs : Constructed(c)
    /\ plan = NoPlan
    /\ sem = NoSem
    /\ cfp = NoCfp
    /\ pair = NoPair

NextLive ==
    \/ \E b \in BOOLEAN : Start(b)
    \/ StartReturn
    \/ MainBegin
    \/ MainProbePrimary
    \/ MainProbeFallback
    \/ MainProbeSecondary
    \/ MainProbeGiveUp
    \/ MainProbeReopen
    \/ MainProbeSleep
    \/ MainAllocWait
    \/ MainDlWait
    \/ MainSingleWait
    \/ MainSettle
    \/ MainSingleSleep
    \/ MainClosing
    \/ MainFailDone
    \/ \E t \in Children : ChildCancelled(t)
    \/ AllocOpen
    \/ AllocWrite
    \/ RepStep
    \/ UpdBegin
    \/ UpdSample
    \/ SingleResponse
    \/ SingleRead
    \/ \E c \in Chunks : WorkerAcquire(c)
    \/ \E c \in Chunks : WorkerResponse(c)
    \/ \E c \in Chunks : WorkerWrite(c)
    \/ \E c \in Chunks : WorkerBackoff(c)
    \/ \E c \in Chunks : WorkerCancelled(c)

\* the event loop runs a ready task and every request, sleep and file
\* operation returns or fails
SpecLive == InitLive /\ [][NextLive]_vars /\ WF_vars(NextLive)

\* ------------------------------------------- change_file_path_if_exist
\* original_path.parent / f"{name}{ext}": the original name for num = 0,
\* original_path.stem + f" ({num})" otherwise
PathOf(original, num) ==
    <<original.parent,
      IF num = 0 THEN <<original.stem>> ELSE <<original.stem, num>>,
      original.suffix>>

\* path.exists()
Exists(path, files) == path \in files

\* a loop that counts in steps of two
NextNumSkipping(num) == num + 2
\* num += 1
NextNum(num) == num + 1

\* a directory that holds any of the candidate names, and maybe a file of
\* another name
InitCfp ==
    /\ ManagerIdle
    /\ plan = NoPlan
    /\ sem = NoSem
    /\ pair = NoPair
    /\ \E taken \in SUBSET (0 .. MaxTaken), other \in BOOLEAN :
         LET original == [parent |-> "dir", stem |-> "video", suffix |-> ".mp4"]
             unrelated == [parent |-> "dir", stem |-> "audio", suffix |-> ".mp3"]
         IN  cfp = [files |-> {PathOf(original, n) : n \in taken}
                               \cup (IF other THEN {PathOf(unrelated, 0)} ELSE {}),
                    original |-> original,
                    num |-> 0,
                    path |-> PathOf(original, 0),
                    running |-> TRUE,
                    returned |-> FALSE]

\* one round of `while path.exists()`
CfpLoop ==
    /\ cfp.running
    /\ Exists(cfp.path, cfp.files)
    /\ cfp' = [cfp EXCEPT !.num = NextNum(@),
                          !.path = PathOf(cfp.original, NextNum(cfp.num))]
    /\ UNCHANGED <<plan, sem, pair>>
    /\ ManagerUnchanged

\* the loop is over: `return path` (cfp.path is the value returned)
CfpReturn ==
    /\ cfp.running
    /\ ~Exists(cfp.path, cfp.files)
    /\ cfp' = [cfp EXCEPT !.running = FALSE, !.returned = TRUE]
    /\ UNCHANGED <<plan, sem, pair>>
    /\ ManagerUnchanged

NextCfp == CfpLoop \/ CfpReturn
SpecCfp == InitCfp /\ [][NextCfp]_vars

\* -------------------------------------- get_file_info beside a session
\* get_file_info() calls interleaved with a session that nobody stops
\* a session that streams the resource in one piece
InfoConfig == [workers |-> 1, single_threaded |-> FALSE,
               initial_dynamic_workers |-> 2, progress |-> FALSE,
               max_retries |-> MaxRetries, exact_bodies |-> FALSE]

\* the response headers of the resource: Content-Length, and the name
\* get_filename derives from the headers and the URL
ServerFilename == "out"
Response == [content_length |-> ContentLength, name |-> ServerFilename]

\* a get_file_info that reports the manager's total_size
InfoTotalSizeOfManager(resp) == total_size
\* total_size = int(response.headers.get("Content-Length", 0))
InfoTotalSize(resp) == resp.content_length
\* filename = get_filename(response.headers, response.url, self.id)
InfoFilename(resp) == resp.name

InitInfo ==
    /\ Constructed(InfoConfig)
    /\ plan = NoPlan
    /\ sem = NoSem
    /\ cfp = NoCfp
    /\ pair = NoPair

\* get_file_info() is called: the first round opens an aiohttp session
InfoCall ==
    /\ info.pc \in {"idle", "returned", "raised"}
    /\ info.calls < MaxInfoCalls
    /\ info' = [info EXCEPT !.pc = "get1", !.i = 0, !.calls = @ + 1,
                            !.session = [kind |-> "aiohttp", closed |-> FALSE]]
    /\ Frame({"info"})

\* the answer through aiohttp: headers with a Content-Length, or a failure
\* (an exception of session.get, or a Content-Length of 0)
InfoPrimary ==
    /\ info.pc = "get1"
    /\ \E ok \in BOOLEAN :
         info' = IF ok
                 THEN [info EXCEPT !.pc = "close_end",
                                   !.found = [filename |-> InfoFilename(Response),
                                              total_size |-> InfoTotalSize(Response)]]
                 ELSE [info EXCEPT !.pc = "close1"]
    /\ Frame({"info"})

\* session.close() returns; a curl_cffi session replaces the local one
InfoFallback ==
    /\ info.pc = "close1"
    /\ info' = [info EXCEPT !.pc = "get2",
                            !.session = [kind |-> "curl_cffi", closed |-> FALSE]]
    /\ Frame({"info"})

\* the answer through curl_cffi
InfoSecondary ==
    /\ info.pc = "get2"
    /\ \E ok \in BOOLEAN :
         info' = IF ok
                 THEN [info EXCEPT !.pc = "close_end",
                                   !.found = [filename |-> InfoFilename(Response),
                                              total_size |-> InfoTotalSize(Response)]]
                 ELSE IF info.i = cfg.max_retries - 1
                 THEN [info EXCEPT !.pc = "giveup"]
                 ELSE [info EXCEPT !.pc = "sleep"]
    /\ Frame({"info"})

\* the last round: session.close() returns and the error is raised
InfoGiveUp ==
    /\ info.pc = "giveup"
    /\ info' = [info EXCEPT !.pc = "raised", !.i = 0, !.session = NoSession]
    /\ Frame({"info"})

\* the backoff sleep ends; the next round opens a new aiohttp session
InfoSleep ==
    /\ info.pc = "sleep"
    /\ info' = [info EXCEPT !.pc = "get1", !.i = @ + 1,
                            !.session = [kind |-> "aiohttp", closed |-> FALSE]]
    /\ Frame({"info"})

\* session.close() returns and the dictionary is returned
InfoReturn ==
    /\ info.pc = "close_end"
    /\ info' = [info EXCEPT !.pc = "returned", !.i = 0, !.session = NoSession,
                            !.found = None,
                            !.results = @ \cup {info.found}]
    /\ Frame({"info"})

NextInfo ==
    \/ \E b \in BOOLEAN : Start(b)
    \/ StartReturn
    \/ MainBegin
    \/ MainProbePrimary
    \/ MainProbeFallback
    \/ MainProbeSecondary
    \/ MainProbeGiveUp
    \/ MainProbeReopen
    \/ MainProbeSleep
    \/ MainSingleWait
    \/ MainSettle
    \/ MainSingleSleep
    \/ MainClosing
    \/ MainFailDone
    \/ \E t \in Children : ChildCancelled(t)
    \/ RepStep
    \/ SingleResponse
    \/ SingleRead
    \/ InfoCall
    \/ InfoPrimary
    \/ InfoFallback
    \/ InfoSecondary
    \/ InfoGiveUp
    \/ InfoSleep
    \/ InfoReturn
SpecInfo == InitInfo /\ [][NextInfo]_vars

\* =================================================================== claims
\* the chunks of the resource the session downloads
ActiveChunks == 0 .. (TotalChunks(total_size, ChunkSize) - 1)

\* ---------------------------------------------------------------------- C1
\* C1: in a multi-segment download the temporary file is renamed to the
\* final output path only after every chunk worker has written its chunk
\* and the task runner has returned without error: once the rename has
\* happened, every chunk is written and every task of the download phase
\* has returned normally (none raised, none was cancelled).
C1_RenameAfterAllChunks ==
    hist.renamed =>
        /\ \A c \in ActiveChunks : w_written[c] /\ pc[W(c)] = "ok"
        /\ pc[Rep] = "ok"
        /\ pc[Upd] = IF cfg.workers = 0 THEN "ok" ELSE "none"

\* the rename has happened and the manager is past it
C1_Witness ==
    /\ hist.renamed
    /\ pc[Main] \in {"closing", "ok"}
    /\ disk["out"] # NoFile /\ disk["temp"] = NoFile

\* ---------------------------------------------------------------------- C2
\* the bodies the chunk workers wrote, one after the other in index order
RECURSIVE ConcatBodies(_)
ConcatBodies(n) ==
    IF n = 0 THEN <<>> ELSE ConcatBodies(n - 1) \o Bytes(w_body[n - 1], n)

\* C2: when a multi-segment download has succeeded, the final file is the
\* concatenation of the chunk responses in chunk-index order, and the bytes
\* at each chunk's range [start, end] are exactly the body returned for
\* that chunk.
C2_FileIsConcatenation ==
    (download_success /\ hist.renamed) =>
        /\ disk["out"] = ConcatBodies(TotalChunks(total_size, ChunkSize))
        /\ \A c \in ActiveChunks :
             SubSeq(disk["out"], ChunkStart(c, ChunkSize) + 1,
                    ChunkEnd(c, total_size, ChunkSize) + 1)
               = Bytes(w_body[c], c + 1)

\* ---------------------------------------------------------------------- C3
CeilDiv(a, b) == CHOOSE k \in 0 .. a : k * b >= a /\ (k - 1) * b < a
RangeSet(r) == r[1] .. r[2]

\* C3: for 0 < chunk_size and 0 < total_size the planner produces
\* ceil(total_size / chunk_size) ranges; they are non-empty, contiguous
\* (each starts one byte after the previous one ends), pairwise disjoint,
\* and their union is exactly 0 .. total_size - 1.
C3_RangesPartitionFile ==
    LET r == plan.ranges
        n == Len(r)
    IN  /\ \A k \in 1 .. n : r[k][1] <= r[k][2]
        /\ n > 0 => r[1][1] = 0
        /\ \A k \in 1 .. (n - 1) : r[k + 1][1] = r[k][2] + 1
        /\ \A j, k \in 1 .. n : j # k => RangeSet(r[j]) \cap RangeSet(r[k]) = {}
        /\ (plan.total > 0 /\ n = TotalChunks(plan.total, plan.chunk)) =>
             /\ n = CeilDiv(plan.total, plan.chunk)
             /\ UNION {RangeSet(r[k]) : k \in 1 .. n} = 0 .. (plan.total - 1)

\* a complete plan of several ranges whose last range is shorter
C3_Witness ==
    LET n == Len(plan.ranges)
    IN  /\ plan.total > 0
        /\ n = TotalChunks(plan.total, plan.chunk)
        /\ n >= 3
        /\ plan.ranges[n][2] - plan.ranges[n][1] + 1 < plan.chunk

\* ---------------------------------------------------------------------- C4
Holders == {p \in SemCallers : sem.st[p] = "held"}

\* C4: no acquire() of the AdjustableSemaphore completes in a state where
\* the number of callers that have acquired and not yet released is already
\* at least the current limit (the initial value, or the argument of the
\* latest set_limit).
C4_AcquireWithinLimit ==
    [][Cardinality(Holders') > Cardinality(Holders)
          => Cardinality(Holders) < sem.limit]_vars

\* ---------------------------------------------------------------------- C5
DownloadTasks ==
    {W(c) : c \in ActiveChunks} \cup {Rep}
        \cup (IF cfg.workers = 0 THEN {Upd} ELSE {})
ChunkFailed == \E c \in Chunks : pc[W(c)] = "error"
StopInvolved == stop_pc = "gather" \/ hist.stopped

\* C5: fail-fast. Once a chunk worker has exhausted its retries, the final
\* output file is never produced; while the task runner waits before
\* re-raising, every sibling of the download phase is done or has its
\* cancellation requested; the error is re-raised only when all of them
\* have settled; and the session, unless stop() cancels it first, ends
\* failed with the error of a chunk that exhausted its retries.
C5_FailFast ==
    /\ ChunkFailed =>
         ~hist.renamed /\ disk["out"] = NoFile /\ ~download_success
    /\ (ChunkFailed /\ pc[Main] = "dl_settle") =>
         \A t \in DownloadTasks : Done(t) \/ t \in cancel_req
    /\ (ChunkFailed /\ pc[Main] \in {"fail_cleanup", "error"}) =>
         \A t \in DownloadTasks : Done(t)
    /\ (ChunkFailed /\ pc[Main] \in Settled /\ ~StopInvolved) =>
         /\ pc[Main] = "error"
         /\ \E c \in Chunks : pc[W(c)] = "error" /\ download_error = exc[W(c)]

\* a chunk failed while a sibling was still in flight; the sibling was
\* cancelled before it wrote, and the session has ended failed
C5_Witness ==
    /\ pc[Main] = "error"
    /\ \E c, d \in Chunks :
         /\ pc[W(c)] = "error" /\ download_error = exc[W(c)]
         /\ d # c /\ Done(W(d)) /\ ~w_written[d]

\* ---------------------------------------------------------------------- C6
\* C6: when a session has ended in failure, download_error holds the
\* causing error (the last probe error, the error of a chunk or of the
\* single stream that exhausted its retries, or a filesystem error),
\* download_success is False, is_running is False, and neither the final
\* output file nor the .temp file exists.
C6_FailureTerminalState ==
    pc[Main] = "error" =>
        /\ download_error = exc[Main]
        /\ download_error \notin {NoError, CancelledError}
        /\ download_error[1] \in {"probe", "chunk", "stream", "filesystem"}
        /\ download_error[1] = "probe" => download_error = ProbeError(cfg.max_retries - 1)
        /\ download_error[1] = "chunk" =>
             \E c \in Chunks : pc[W(c)] = "error" /\ exc[W(c)] = download_error
        /\ download_error[1] = "stream" =>
             pc[Single] = "error" /\ exc[Single] = download_error
        /\ ~download_success
        /\ ~is_running
        /\ disk["out"] = NoFile /\ disk["temp"] = NoFile

\* a failure after the output path was chosen and bytes were written
C6_Witness ==
    /\ pc[Main] = "error"
    /\ output_path # None
    /\ size_done > 0

\* ---------------------------------------------------------------------- C7
\* C7: when a stop() that was called on a running session has returned,
\* neither the final output file nor the .temp file exists.
C7_StopRemovesFiles ==
    hist.stopped => disk["out"] = NoFile /\ disk["temp"] = NoFile

\* stop() has returned after it interrupted a download that had written bytes
C7_Witness ==
    /\ hist.stopped
    /\ pc[Main] = "cancelled"
    /\ output_path # None
    /\ size_done > 0

\* ---------------------------------------------------------------------- C8
\* C8: when a stop() that was called on a running session has returned,
\* download_error is the cancellation marker and download_success is False.
C8_StopLeavesCancelMarker ==
    hist.stopped => download_error = CancelledError /\ ~download_success

\* ---------------------------------------------------------------------- C9
\* C9: in every state after start() was called, if is_running is False then
\* exactly one of download_success = True and download_error # None holds.
C9_OutcomeDecided ==
    (is_downloader_used /\ ~is_running) =>
        (download_success # (download_error # NoError))

\* --------------------------------------------------------------------- C10
\* C10: a main download task is created only by a start() on an instance
\* that is not running and was never used, so at most one is ever created;
\* a start() that raises the usage error changes no field of the manager.
C10_SingleUse ==
    [][/\ hist.main_created' # hist.main_created =>
            hist.main_created = 0 /\ ~is_running /\ ~is_downloader_used
       /\ hist.start_raised' # hist.start_raised =>
            /\ is_running \/ is_downloader_used
            /\ UNCHANGED <<cfg, mgr, tasks, work, disk, caller>>]_vars

\* start() was refused on an instance whose session is over
C10_Witness ==
    /\ hist.start_raised
    /\ hist.main_created = 1
    /\ ~is_running
    /\ pc[Main] \in Settled

\* --------------------------------------------------------------------- C11
\* C11: when a foreground start() has returned normally, its value is
\* output_path, the final file exists at that path, the .temp file does not
\* exist, download_success is True, download_error is None and is_running
\* is False; when it has raised, the main task did not return and the
\* exception is the one the main task ended with (the causing error, which
\* is download_error after a failure, or the cancellation).
C11_ForegroundStartResult ==
    /\ start_ret[1] = "returned" =>
         /\ pc[Main] = "ok"
         /\ start_ret[2] = output_path /\ output_path # None
         /\ disk[output_path] # NoFile
         /\ disk["temp"] = NoFile /\ temp_file_path = None
         /\ download_success /\ download_error = NoError /\ ~is_running
    /\ start_ret[1] = "raised" =>
         /\ pc[Main] \in {"error", "cancelled"}
         /\ pc[Main] = "error" =>
              start_ret[2] = download_error /\ download_error # NoError
         /\ pc[Main] = "cancelled" => start_ret[2] = CancelledError

\* a foreground start() returned the path of a multi-segment download
C11_Witness ==
    /\ start_ret[1] = "returned"
    /\ hist.renamed
    /\ Len(disk["out"]) >= total_size

\* --------------------------------------------------------------------- C12
\* C12: after a successful probe the single-stream path is taken if and
\* only if the server did not advertise Accept-Ranges: bytes, or
\* single_threaded was requested, or workers == 1; otherwise the
\* multi-segment path is taken. Never both, and the single-stream path
\* never has a .temp file.
C12_PathSelection ==
    LET probed == hist.accept # None
        forced == hist.accept # "bytes" \/ cfg.single_threaded \/ cfg.workers = 1
        single == pc[Single] # "none"
        multi == pc[Alloc] # "none"
    IN  /\ single <=> (probed /\ forced)
        /\ multi <=> (probed /\ ~forced)
        /\ ~(single /\ multi)
        /\ single => temp_file_path = None /\ disk["temp"] = NoFile

\* workers == 1 alone sent a server with range support down the single stream
C12_Witness ==
    /\ cfg.workers = 1 /\ ~cfg.single_threaded
    /\ hist.accept = "bytes"
    /\ pc[Single] = "ok"
    /\ download_success

\* --------------------------------------------------------------------- C13
\* 2^0, 2^1, ..., 2^(k-1)
Powers(k) == [j \in 1 .. k |-> 2 ^ (j - 1)]

\* C13: a chunk worker with max_retries = R whose first k < R attempts
\* fail and whose attempt k+1 succeeds completes without an error after
\* exactly k+1 range requests and exactly k backoff sleeps of 2^0, ...,
\* 2^(k-1) seconds; a worker whose R attempts all fail raises the error of
\* the R-th attempt after exactly R requests and R-1 sleeps.
C13_RetryBackoff ==
    \A c \in ActiveChunks :
        LET L == obs.log[c]
            R == cfg.max_retries
        IN  /\ L.reqs <= R /\ L.fails <= L.reqs
            /\ L.sleeps = Powers(Len(L.sleeps))
            /\ (pc[W(c)] = "ok" /\ w_written[c]) =>
                 /\ L.fails < R
                 /\ L.reqs = L.fails + 1
                 /\ Len(L.sleeps) = L.fails
                 /\ exc[W(c)] = NoError
            /\ pc[W(c)] = "error" =>
                 /\ L.fails = R /\ L.reqs = R
                 /\ Len(L.sleeps) = R - 1
                 /\ exc[W(c)] = ChunkError(c, R - 1)

\* one worker succeeded on its last attempt after two sleeps, another one
\* exhausted its retries
C13_Witness ==
    /\ cfg.max_retries >= 3
    /\ \E c, d \in ActiveChunks :
         /\ pc[W(c)] = "ok" /\ w_written[c]
         /\ obs.log[c].reqs = cfg.max_retries
         /\ obs.log[c].sleeps = <<1, 2>>
         /\ pc[W(d)] = "error" /\ obs.log[d].reqs = cfg.max_retries

\* --------------------------------------------------------------------- C14
\* C14: the transport fallback is one-way: once the session has switched
\* to the secondary backend (curl_cffi), no later step switches it back to
\* the primary backend (aiohttp).
C14_FallbackOneWay ==
    [][session.kind = "curl_cffi" => session'.kind = "curl_cffi"]_vars

\* --------------------------------------------------------------------- C15
\* C15, as stated: no step ever lowers size_done.
C15_Monotonic == [][size_done' >= size_done]_vars

\* C15, amended: size_done is lowered only by the manager, and only to 0:
\* when the download phase starts after the allocation phase and when a
\* single-stream attempt starts; no step of the allocator, of a chunk
\* worker or of the single-stream download lowers it.
C15_LoweredOnlyByReset ==
    [][size_done' < size_done =>
          /\ size_done' = 0
          /\ pc[Main] \in {"alloc_wait", "st_sleep"}
          /\ pc'[Main] \in {"dl_wait", "st_wait"}]_vars

\* the download phase after the reset: the allocator had counted the whole
\* file, the workers have counted a part of it again
C15_Witness ==
    /\ pc[Main] = "dl_wait"
    /\ pc[Alloc] = "ok"
    /\ 0 < size_done /\ size_done < total_size

\* --------------------------------------------------------------------- C16
\* the chunk workers between a completed acquire() and their release()
SlotHolders == {c \in Chunks : pc[W(c)] \in {"get", "write", "backoff"}}

\* C16: with a fixed workers count w >= 2 the worker controller is never
\* started; from the start of the download phase dynamic_workers equals w
\* and the semaphore's limit is w and is never changed (free slots plus
\* holders always make w); at every moment at most w chunk workers hold a
\* slot.
C16_PinnedWorkers ==
    cfg.workers >= 2 =>
        /\ pc[Upd] = "none" /\ Upd \notin downloader_tasks
        /\ (\E c \in Chunks : pc[W(c)] # "none") =>
             /\ dynamic_workers = cfg.workers
             /\ sem_value >= 0
             /\ sem_value + Cardinality(SlotHolders) = cfg.workers
        /\ Cardinality(SlotHolders) <= cfg.workers

\* w workers hold a slot while another one waits for the semaphore
C16_Witness ==
    /\ cfg.workers = 2
    /\ cfg.initial_dynamic_workers # cfg.workers
    /\ Cardinality(SlotHolders) = cfg.workers
    /\ sem_waiters # <<>>

\* --------------------------------------------------------------------- C17
\* a step of the worker controller that returns from its sleep and samples
C17_SampleStep ==
    /\ pc[Upd] = "sleep"
    /\ pc'[Upd] \in {"sleep", "ok"}
    /\ <<prev_downloaded, prev_speed, dynamic_workers>>' #
           <<prev_downloaded, prev_speed, dynamic_workers>>

\* without a fixed workers count dynamic_workers changes only at a
\* sample the controller takes after its sleep; a sample with a higher speed
\* than the previous one adds exactly 2, one with a lower speed subtracts 2
\* but never goes below 2, one with the same speed changes nothing.
C17_SampleDelta ==
    [][LET speed == size_done - prev_downloaded
       IN  /\ (cfg.workers = 0 /\ dynamic_workers' # dynamic_workers)
                  => C17_SampleStep
           /\ C17_SampleStep =>
                /\ speed > prev_speed => dynamic_workers' = dynamic_workers + 2
                /\ speed < prev_speed =>
                     /\ dynamic_workers' >= 2
                     /\ dynamic_workers' =
                            (IF dynamic_workers - 2 < 2 THEN 2
                             ELSE dynamic_workers - 2)
                /\ speed = prev_speed => dynamic_workers' = dynamic_workers]_vars

\* started at 2 or more, the limit is at least 2
C17_FloorHolds ==
    cfg.initial_dynamic_workers >= 2 => dynamic_workers >= 2

\* C17: the controller changes dynamic_workers only at a sample after its
\* sleep, by exactly +2, -2 floored at 2, or 0; for every
\* initial_dynamic_workers >= 2 the limit is >= 2 in every reachable state,
\* and for any initial value it is >= 2 after a decreasing sample.
C17_Controller == C17_SampleDelta /\ []C17_FloorHolds

\* started at 1, the controller went 1 -> 3 and a slower sample brought it
\* to the floor
C17_Witness ==
    /\ cfg.workers = 0
    /\ cfg.initial_dynamic_workers = 1
    /\ dynamic_workers = 2
    /\ pc[Upd] = "sleep"

\* --------------------------------------------------------------------- C18
\* a chunk worker exists only after the allocator has returned normally
C18_WorkersAfterAllocator ==
    \A c \in Chunks : pc[W(c)] # "none" => pc[Alloc] = "ok"

\* C18: no chunk worker opens or writes the temp file before the zero-fill
\* allocation has completed and its completion has been awaited: every step
\* of the allocator happens while no chunk worker exists, and at the step
\* that creates the chunk workers the allocator has returned and the temp
\* file holds total_size zero bytes.
C18_AllocationFirst ==
    /\ []C18_WorkersAfterAllocator
    /\ [][/\ pc'[Alloc] # pc[Alloc] => \A c \in Chunks : pc[W(c)] = "none"
          /\ (\E c \in Chunks : pc[W(c)] = "none" /\ pc'[W(c)] # "none") =>
                /\ pc[Alloc] = "ok"
                /\ pc[Main] = "alloc_wait"
                /\ disk[temp_file_path] = Zeros(total_size)]_vars

\* a chunk worker is about to write into the allocated file
C18_Witness ==
    /\ pc[Alloc] = "ok"
    /\ \E c \in Chunks : pc[W(c)] = "write"
    /\ disk["temp"] # NoFile /\ Len(disk["temp"]) = total_size

\* --------------------------------------------------------------------- C19
\* C19: get_file_info() has no side effect on the manager or on disk: each
\* of its steps, whatever the outcome, leaves is_running,
\* is_downloader_used, session, filename, output_path, total_size,
\* curl_cffi_required, download_success, download_error and every file
\* unchanged, before, during and after a download session; and every call
\* that returns gives the same {filename, total_size}, the one of the
\* server's response.
C19_InfoHasNoSideEffects ==
    /\ [][info' # info =>
            UNCHANGED <<is_running, is_downloader_used, session, filename,
                        output_path, total_size, curl_cffi_required,
                        download_success, download_error, disk>>]_vars
    /\ [](Cardinality(info.results) <= 1)
    /\ [](\A r \in info.results :
            r = [filename |-> ServerFilename, total_size |-> ContentLength])

\* a first call has returned and a second one, made while the session is
\* streaming, has fallen back to curl_cffi
C19_Witness ==
    /\ info.calls = 2
    /\ info.pc = "get2"
    /\ info.results # {}
    /\ is_running /\ pc[Main] = "st_wait"
    /\ session.kind = "aiohttp"

\* --------------------------------------------------------------------- C20
\* C20: with a progress display configured, every reporter run whose loop
\* exits normally ends with exactly one final report whose done argument is
\* total_size, under the description of its phase; and in a multi-segment
\* download the final report of the "Downloading" phase has been made when
\* the temp file is renamed.
C20_FinalReport ==
    /\ [][(cfg.progress /\ pc[Rep] \in {"created", "sleep"} /\ pc'[Rep] = "ok") =>
             /\ Len(hist'.final) = Len(hist.final) + 1
             /\ hist'.final[Len(hist'.final)] = <<RepDescription, total_size>>]_vars
    /\ [][(cfg.progress /\ ~hist.renamed /\ hist'.renamed) =>
             \E k \in 1 .. Len(hist.final) :
                 hist.final[k] = <<"Downloading", total_size>>]_vars

\* both phases of a successful multi-segment download have made their
\* final report
C20_Witness ==
    /\ cfg.progress
    /\ hist.renamed /\ download_success
    /\ hist.final = << <<"Creating Temp File", total_size>>,
                       <<"Downloading", total_size>> >>

\* --------------------------------------------------------------------- C21
\* C21: with requests that return or fail, bodies of the requested length,
\* max_retries >= 1 and an initial worker limit >= 1, every started session
\* that is not stopped eventually reaches a terminal state: download_success
\* is True or download_error is set.
C21_SessionTerminates ==
    (hist.main_created > 0) ~> (download_success \/ download_error # NoError)

\* a session that started with a worker limit of 1 for two chunks has
\* succeeded
C21_Witness ==
    /\ cfg.exact_bodies
    /\ cfg.workers = 0 /\ cfg.initial_dynamic_workers = 1
    /\ hist.main_created > 0
    /\ hist.renamed /\ download_success

\* --------------------------------------------------------------------- C22
\* C22: no caller of acquire() starves: with limits >= 1 and holders that
\* release, every caller blocked in acquire() eventually acquires.
C22_NoStarvation ==
    \A p \in SemCallers : (sem.st[p] = "wait") ~> (sem.st[p] = "held")

\* --------------------------------------------------------------------- C23
\* C23: for any set of files present in the directory,
\* change_file_path_if_exist(dir/stem.ext) returns the original path when it
\* is free and otherwise dir/"stem (n).ext" for the smallest n >= 1 whose
\* path is free; the returned path never names an existing file.
C23_SmallestFreeName ==
    cfp.returned =>
        LET taken(n) == PathOf(cfp.original, n) \in cfp.files
        IN  /\ cfp.path \notin cfp.files
            /\ ~taken(0) => cfp.path = <<"dir", <<"video">>, ".mp4">>
            /\ taken(0) =>
                 \E n \in 1 .. (MaxTaken + 1) :
                    /\ cfp.path = <<"dir", <<"video", n>>, ".mp4">>
                    /\ ~taken(n)
                    /\ \A k \in 1 .. (n - 1) : taken(k)

\* "video.mp4" and "video (1).mp4" exist, "video (2).mp4" is returned although
\* "video (3).mp4" exists as well
C23_Witness ==
    /\ cfp.returned
    /\ cfp.path = <<"dir", <<"video", 2>>, ".mp4">>
    /\ <<"dir", <<"video", 3>>, ".mp4">> \in cfp.files
    /\ <<"dir", <<"audio">>, ".mp3">> \in cfp.files

\* --------------------------------------------------------------------- C24
\* C24: semaphore slots are balanced on every exit path: a chunk worker
\* completes acquire() at most once; while it holds the slot it has not
\* released; when its task has settled (success, error after the last retry,
\* cancellation inside the retry loop) it has released exactly as often as
\* it acquired; a worker cancelled before acquire() completed never
\* releases; releases never exceed completed acquires.
C24_SlotsBalanced ==
    \A c \in Chunks :
        LET log == obs.log[c]
        IN  /\ log.rel <= log.acq /\ log.acq <= 1
            /\ pc[W(c)] \in {"get", "write", "backoff"} => log.acq = 1 /\ log.rel = 0
            /\ pc[W(c)] \in {"ok", "error"} => log.acq = 1 /\ log.rel = 1
            /\ pc[W(c)] \in {"none", "created", "sem_wait", "sem_woken", "cancelled"}
                 => log.acq = 0 /\ log.rel = 0

\* one worker failed for good, one was cancelled inside the retry loop and
\* returned without having written, one was cancelled while it waited for
\* the semaphore
C24_Witness ==
    \E c, d, e \in Chunks :
        /\ pc[W(c)] = "error" /\ obs.log[c].rel = 1
        /\ pc[W(d)] = "ok" /\ ~w_written[d] /\ obs.log[d].rel = 1
        /\ pc[W(e)] = "cancelled" /\ obs.log[e].rel = 0

\* --------------------------------------------------------------------- C25
\* C25: a chunk worker that receives a cancellation at any of its
\* suspension points (waiting for the semaphore, awaiting the request or
\* the body, writing the file, sleeping in backoff) exits silently: its
\* task settles as returned, holding no error and not cancelled.
C25_CancelledExitsSilently ==
    [][\A c \in Chunks :
          (/\ W(c) \in cancel_req /\ W(c) \notin cancel_req'
           /\ pc[W(c)] \in {"sem_wait", "sem_woken", "get", "write", "backoff"})
          => pc'[W(c)] = "ok" /\ exc'[W(c)] = NoError]_vars

\* --------------------------------------------------------------------- C26
\* n failed rounds: primary then secondary in each, a sleep of 2^i after
\* round i except after the last
RECURSIVE C26_Rounds(_)
C26_Rounds(n) ==
    IF n = 0 THEN <<>>
    ELSE C26_Rounds(n - 1)
           \o (IF n > 1 THEN << <<"sleep", 2 ^ (n - 2)>> >> ELSE <<>>)
           \o << <<"primary", n - 1>>, <<"secondary", n - 1>> >>

\* C26: if every probe attempt fails, the session fails with the error of
\* the last attempt after exactly max_retries rounds, each trying the
\* primary and then the secondary backend, with a sleep of 2^i after failed
\* round i except the last; and as long as no probe has succeeded no temp
\* file and no output file exists.
C26_ProbeFailure ==
    /\ (pc[Main] = "error" /\ hist.accept = None) =>
          /\ download_error = <<"probe", cfg.max_retries - 1>>
          /\ obs.probe = C26_Rounds(cfg.max_retries)
          /\ ~download_success /\ ~is_running
    /\ hist.accept = None =>
          /\ \A p \in Paths : disk[p] = NoFile
          /\ output_path = None /\ temp_file_path = None

\* three rounds have failed on both backends and the session has failed
C26_Witness ==
    /\ pc[Main] = "error" /\ hist.accept = None
    /\ cfg.max_retries = 3
    /\ Len(obs.probe) = 8
    /\ obs.probe[6] = <<"sleep", 2>>

\* --------------------------------------------------------------------- C27
\* C27: in multi-segment mode the temp file is renamed to the final output
\* path only in a state where size_done = total_size, for every
\* configuration.
C27_RenameWhenComplete ==
    [][(~hist.renamed /\ hist'.renamed) => size_done = total_size]_vars

\* --------------------------------------------------------------------- C28
\* C28: when the allocation phase has completed the temp file is exactly
\* total_size bytes long, and until the rename its length never changes,
\* whatever bodies the chunk workers write.
C28_LengthFixed ==
    (/\ pc[Alloc] = "ok"
     /\ temp_file_path # None
     /\ disk["temp"] # NoFile) => Len(disk["temp"]) = total_size

\* --------------------------------------------------------------------- C29
\* the body lengths of the chunks below n whose write has completed, summed
RECURSIVE C29_WrittenBytes(_)
C29_WrittenBytes(n) ==
    IF n = 0 THEN 0
    ELSE C29_WrittenBytes(n - 1) + (IF w_written[n - 1] THEN w_body[n - 1] ELSE 0)

\* C29: from the creation of the chunk workers on, size_done equals the sum
\* of the body lengths of the chunks whose write has completed: it is 0 when
\* the first worker starts, each chunk is added once, after its write,
\* however many attempts failed before, under every interleaving.
C29_CounterIsSumOfWritten ==
    (\E c \in Chunks : pc[W(c)] # "none") =>
        size_done = C29_WrittenBytes(MaxChunks)

\* two chunks are written, one of them after a failed attempt, while the
\* third is still at work
C29_Witness ==
    \E c, d, e \in Chunks :
        /\ c # d
        /\ w_written[c] /\ w_written[d] /\ w_body[c] > 0 /\ w_body[d] > 0
        /\ obs.log[c].fails > 0
        /\ pc[W(e)] = "write"
        /\ size_done = w_body[c] + w_body[d]

\* ------------------------------------------- a single-stream session alone
\* single_threaded=True with a longer retry budget, from construction to the
\* end of the session
SingleConfig == [DefaultConfig EXCEPT !.single_threaded = TRUE,
                                      !.max_retries = LongRetries]

InitSingle ==
    /\ Constructed(SingleConfig)
    /\ plan = NoPlan
    /\ sem = NoSem
    /\ cfp = NoCfp
    /\ pair = NoPair

NextSingle ==
    \/ \E b \in BOOLEAN : Start(b)
    \/ StartReturn
    \/ StopCall
    \/ StopFinish
    \/ MainBegin
    \/ MainProbePrimary
    \/ MainProbeFallback
    \/ MainProbeSecondary
    \/ MainProbeGiveUp
    \/ MainProbeReopen
    \/ MainProbeSleep
    \/ MainSingleWait
    \/ MainSettle
    \/ MainSingleSleep
    \/ MainClosing
    \/ MainFailDone
    \/ MainCancelled
    \/ \E t \in Children : ChildCancelled(t)
    \/ RepStep
    \/ SingleResponse
    \/ SingleRead

SpecSingle == InitSingle /\ [][NextSingle]_vars

\* C30: in single-stream mode every attempt starts with size_done = 0, there
\* are at most max_retries attempts with a sleep of 2^i seconds after the
\* i-th failed one (i from 0), and when the session succeeds size_done is the
\* number of bytes in the output file, all of them written by the last attempt
C30_AttemptStarts == pc[Main] # "st_wait" /\ pc'[Main] = "st_wait"
C30_SingleStreamRetry ==
    /\ [][C30_AttemptStarts => size_done' = 0 /\ pc'[Single] = "created"]_vars
    /\ [](pc[Main] \in {"st_wait", "st_settle", "st_sleep"} =>
            /\ main_i \in 0 .. cfg.max_retries - 1
            /\ hist.single_sleeps = [k \in 1 .. main_i |-> 2 ^ (k - 1)])
    /\ [](Len(hist.single_sleeps) < cfg.max_retries)
    /\ [](download_success /\ pc[Single] # "none" =>
            /\ size_done = Len(disk[output_path])
            /\ \A k \in 1 .. Len(disk[output_path]) :
                   disk[output_path][k] = Len(hist.single_sleeps) + 1)
C30_Witness ==
    /\ download_success
    /\ pc[Single] # "none"
    /\ hist.single_sleeps = <<1, 2>>
    /\ size_done = total_size
    /\ Len(disk[output_path]) = total_size

\* ------------------------------------ a single-stream session, with reports
\* the same steps as SpecSingle with the default retry budget; the calls of
\* the progress display are recorded
ReportConfig == [DefaultConfig EXCEPT !.single_threaded = TRUE]

InitReport ==
    /\ ConstructedWith(ReportConfig, TRUE)
    /\ plan = NoPlan
    /\ sem = NoSem
    /\ cfp = NoCfp
    /\ pair = NoPair

SpecReport == InitReport /\ [][NextSingle]_vars

\* a sampling iteration of _show_progress: the loop test held and the
\* reporter goes to sleep
C31_Iteration == RepStep /\ cfg.progress /\ pc'[Rep] = "sleep"
C31_Reported ==
    obs'.reports = Append(obs.reports, <<RepDescription, size_done, total_size>>)

C32_Acquired(c) == pc[W(c)] \in {"created", "sem_woken"} /\ pc'[W(c)] = "get"
C32_CounterNeverNegative ==
    /\ [](sem_value >= 0)
    /\ [][dynamic_workers' # dynamic_workers =>
             sem_value' = dynamic_workers' /\ dynamic_workers' >= 0]_vars
    /\ [][\A c \in Chunks :
             C32_Acquired(c) => sem_value > 0 /\ sem_value' = sem_value - 1]_vars
C32_Witness ==
    /\ cfg.workers = 0
    /\ dynamic_workers > cfg.initial_dynamic_workers
    /\ sem_value < dynamic_workers
    /\ \E c \in Chunks : pc[W(c)] \in {"get", "write"}

\* C33: once the probe has succeeded and the download phase has started
\* the backend flag agrees with the session: curl_cffi_required is TRUE
\* exactly when self.session is a curl_cffi session
C33_FlagMatchesSession ==
    hist.accept # None =>
        (curl_cffi_required <=> session.kind = "curl_cffi")

\* C34: download_success and a set download_error never hold together, and
\* each is final: download_success never goes back to FALSE, a set
\* download_error never changes, and neither is set once the other is
C34_TerminalFlags ==
    /\ [](~(download_success /\ download_error # NoError))
    /\ [][download_success => download_success' /\ download_error' = NoError]_vars
    /\ [][download_error # NoError =>
             download_error' = download_error /\ ~download_success']_vars
C34_Witness ==
    /\ hist.stopped
    /\ download_error = CancelledError
    /\ ~download_success
    /\ ~is_running

\* ------------------------------ two managers that share an output directory
\* Each manager is reduced to the steps that choose, create, rename and
\* delete its files; pair.files maps every path of the directory to the
\* manager that wrote the file last (0: no file).
PairIds == {1, 2}
PairNames == {[parent |-> "dir", stem |-> "video", suffix |-> s] :
                 s \in {".mp4", ".mkv"}}
NoPath == <<>>
\* output_dir / (output_path.stem + ".temp")
PairTempOf(path) == <<path[1], path[2], ".temp">>
PairOutputs == {PathOf(o, n) : o \in PairNames, n \in 0 .. 1}
PairPaths == PairOutputs \cup {PairTempOf(p) : p \in PairOutputs}
PairRunning == {"probing", "resolved", "streaming", "allocated", "written"}

\* change_file_path_if_exist: the first of name, name (1), .. that is free
PairFree(original, files) ==
    LET free(n) == files[PathOf(original, n)] = 0
    IN  PathOf(original, CHOOSE n \in 0 .. 1 : free(n) /\ \A k \in 0 .. n - 1 : ~free(k))

\* _cleanup while is_running: output_path and temp_file_path are unlinked
PairCleanup(files, r) ==
    [p \in PairPaths |-> IF p \in {r.output_path, r.temp_file_path} THEN 0
                         ELSE files[p]]

InitPair ==
    /\ ManagerIdle
    /\ plan = NoPlan
    /\ sem = NoSem
    /\ cfp = NoCfp
    /\ \E names \in [PairIds -> PairNames], single \in [PairIds -> BOOLEAN] :
         pair = [files |-> [p \in PairPaths |-> 0],
                 m |-> [i \in PairIds |->
                          [pc |-> "probing", original |-> names[i],
                           single |-> single[i], output_path |-> NoPath,
                           temp_file_path |-> NoPath]]]

PairStep(i, files, r) ==
    /\ pair' = [files |-> files, m |-> [pair.m EXCEPT ![i] = r]]
    /\ UNCHANGED <<plan, sem, cfp>>
    /\ ManagerUnchanged

\* lines 632-635: the probe is over, the output path is resolved
PairResolve(i) ==
    LET r == pair.m[i]
    IN  /\ r.pc = "probing"
        /\ PairStep(i, pair.files,
                    [r EXCEPT !.pc = "resolved",
                              !.output_path = PairFree(r.original, pair.files)])

\* _single_threaded_download_child: open(output_path, "wb")
PairSingleOpen(i) ==
    LET r == pair.m[i]
    IN  /\ r.pc = "resolved" /\ r.single
        /\ PairStep(i, [pair.files EXCEPT ![r.output_path] = i],
                    [r EXCEPT !.pc = "streaming"])

\* the stream ends and the session succeeds
PairSingleDone(i) ==
    LET r == pair.m[i]
    IN  /\ r.pc = "streaming"
        /\ PairStep(i, pair.files, [r EXCEPT !.pc = "done"])

\* line 507 and _temp_file_creator: open(temp_file_path, "wb")
PairAllocate(i) ==
    LET r == pair.m[i]
        temp == PairTempOf(r.output_path)
    IN  /\ r.pc = "resolved" /\ ~r.single
        /\ PairStep(i, [pair.files EXCEPT ![temp] = i],
                    [r EXCEPT !.pc = "allocated", !.temp_file_path = temp])

\* the _cleanup of a failed session, then is_running = False
PairFailed(i, r) ==
    PairStep(i, PairCleanup(pair.files, r), [r EXCEPT !.pc = "failed"])

\* _load_chunk: open(temp_file_path, "r+b") and the writes of the chunks; a
\* missing file raises and the session fails
PairWrite(i) ==
    LET r == pair.m[i]
    IN  /\ r.pc = "allocated"
        /\ IF pair.files[r.temp_file_path] = 0
           THEN PairFailed(i, r)
           ELSE PairStep(i, [pair.files EXCEPT ![r.temp_file_path] = i],
                         [r EXCEPT !.pc = "written"])

\* lines 539-541: temp_file_path.rename(output_path), which replaces a file
\* at the target and raises when the temp file is gone
PairRename(i) ==
    LET r == pair.m[i]
    IN  /\ r.pc = "written"
        /\ IF pair.files[r.temp_file_path] = 0
           THEN PairFailed(i, r)
           ELSE PairStep(i, [pair.files EXCEPT
                                ![r.output_path] = pair.files[r.temp_file_path],
                                ![r.temp_file_path] = 0],
                         [r EXCEPT !.pc = "done", !.temp_file_path = NoPath])

\* a request or a write fails for good: lines 664-669
PairFail(i) ==
    LET r == pair.m[i]
    IN  /\ r.pc \in PairRunning
        /\ PairFailed(i, r)

\* stop() on the running session: its _cleanup
PairStop(i) ==
    LET r == pair.m[i]
    IN  /\ r.pc \in PairRunning
        /\ PairStep(i, PairCleanup(pair.files, r), [r EXCEPT !.pc = "stopped"])

NextPair ==
    \/ \E i \in PairIds : PairResolve(i)
    \/ \E i \in PairIds : PairSingleOpen(i)
    \/ \E i \in PairIds : PairSingleDone(i)
    \/ \E i \in PairIds : PairAllocate(i)
    \/ \E i \in PairIds : PairWrite(i)
    \/ \E i \in PairIds : PairRename(i)
    \/ \E i \in PairIds : PairFail(i)
    \/ \E i \in PairIds : PairStop(i)

SpecPair == InitPair /\ [][NextPair]_vars

\* C35: two managers that run in the same output directory never hold the
\* same output path or the same temp path, and no step of one of them
\* overwrites, renames or deletes a file that the other one wrote
C35_Active(i) == pair.m[i].pc \in PairRunning \ {"probing"}
C35_NoSharedArtifact ==
    /\ [](C35_Active(1) /\ C35_Active(2) =>
            /\ pair.m[1].output_path # pair.m[2].output_path
            /\ (pair.m[1].temp_file_path # NoPath =>
                   pair.m[1].temp_file_path # pair.m[2].temp_file_path))
    /\ [][\A i \in PairIds, p \in PairPaths :
             (pair'.m[i] # pair.m[i] /\ pair.files[p] \notin {0, i}) =>
                 pair'.files[p] = pair.files[p]]_vars

\* C36: once a stop() of a running session has returned, every task of the
\* session has settled, is_running is FALSE, the session is closed and the
\* directory never changes again
C36_StopSettlesEverything ==
    /\ [](hist.stopped =>
            /\ \A t \in Task : pc[t] \in Settled \cup {"none"}
            /\ ~is_running
            /\ session.kind # None => session.closed)
    /\ [][hist.stopped => disk' = disk]_vars
C36_Witness ==
    /\ hist.stopped
    /\ pc[Main] = "cancelled"
    /\ \E c, d \in Chunks : pc[W(c)] = "error" /\ pc[W(d)] = "cancelled"
    /\ ~is_running /\ session.closed

\* C37: a stop() that finds no running session (before start, after a
\* success, a failure or an earlier stop) cancels nothing, starts no gather
\* and no cleanup and changes no field and no file; the output file of a
\* successful session stays in place
C37_IdleStop == obs'.idle_stops # obs.idle_stops
C37_StopWhenIdleIsNoOp ==
    /\ [][C37_IdleStop => ~is_running /\ UNCHANGED <<mgr, tasks, work, disk, caller, hist>>]_vars
    /\ [][~is_running /\ stop_pc = "idle" =>
             stop_pc' = "idle" /\ cancel_req' \subseteq cancel_req]_vars
    /\ [](download_success /\ ~hist.stopped => disk[output_path] # NoFile)
C37_Witness ==
    /\ {"none", "ok"} \subseteq obs.idle_stops
    /\ download_success
    /\ disk[output_path] # NoFile
    /\ ~is_running /\ stop_pc = "idle" /\ ~hist.stopped
====
